---- MODULE Spec2Model ----
(***************************************************************************)
(* School of Statistics: the confusion-matrix pages.                       *)
(*                                                                         *)
(*   - inverse_classifier.js: currentState / lockState, adjustValues,      *)
(*     updateUI, generateScoresFromMatrix and the lock-toggle handler;      *)
(*   - common.js: calculateRocAndAuc;                                       *)
(*   - direct_classifier.js: generateData, getConfusionMatrix,              *)
(*     updateApplication.                                                   *)
(*                                                                         *)
(* Numbers that the code divides are exact rationals <<n, d>> in lowest    *)
(* terms (d > 0); a division by zero gives NaN, as 0/0 does in JavaScript. *)
(***************************************************************************)
EXTENDS Integers, Sequences, FiniteSets, TLC

VARIABLES
    page,           \* which page is loaded: "inverse", "direct", "regression",
                    \* or the name of a group of functions called on their own
    currentState,   \* inverse page: the four counts
    lockState,      \* inverse page: which counts are locked
    sliderDisabled, \* inverse page: the disabled flag of each slider
    sliderShown,    \* inverse page: the values updateUI wrote to the sliders
    sample,         \* the labels and scores the charts were last drawn from
    lastCall,       \* the handler that ran last, its arguments and its entry state
    opCount,        \* handler runs since the page was loaded
    call,           \* a function called on its own: its arguments, its position
                    \* and its result
    regression      \* regression page: its globals, inputs and charts

vars == <<page, currentState, lockState, sliderDisabled, sliderShown, sample,
          lastCall, opCount, call, regression>>

---------------------------------------------------------------------------
\* Bounds of the model.

\* Handler runs explored after page load.
MaxOps == 2
\* Slider positions tried by an edit: NumEditValues evenly spread over 0..TOTAL_SAMPLES.
NumEditValues == 3
\* Outcomes of the uniform source explored per redraw of the scores.
NumSeeds == 2
\* Scores are the multiples of 1/ScoreDen in 0..1.
ScoreDen == 2
\* Longest arrays given to the functions called on their own.
MaxLen == 3
\* Largest polynomial degree tried.
MaxDegree == 2
\* Largest count given to the derived rates directly.
MaxCount == 3
\* Listener runs followed on the regression page's pointer listeners alone.
MaxPointerOps == 3
\* Longest delay given to debounce and the last instant of its clock.
MaxWait == 2
MaxTime == 4
\* Math.random() returns one of the multiples of 1/UniformDen in [0, 1).
UniformDen == 8
\* Math.random() calls counted per randomGaussian call (the count saturates).
MaxDraws == 4
\* Samples other than 0 in a signal given to the Fourier functions.
MaxNonZero == 2
\* Largest sample of such a signal.
MaxAmplitude == 1

---------------------------------------------------------------------------
\* Program constants.

TOTAL_SAMPLES == 100
N_SAMPLES_PER_CLASS == 100

\* Object.keys(currentState), in insertion order.
Params == <<"tp", "fp", "tn", "fn">>
ParamSet == {"tp", "fp", "tn", "fn"}

---------------------------------------------------------------------------
\* JavaScript numbers, as far as the pages divide them: <<n, d>> with d > 0 in
\* lowest terms is n/d, <<0, 0>> is NaN, <<1, 0>> and <<-1, 0>> are +-Infinity.

\* Euclid's algorithm, on a >= 0 and b >= 0.
Euclid[a \in Nat, b \in Nat] == IF b = 0 THEN a ELSE Euclid[b, a % b]
GCD(a, b) == Euclid[a, b]

Abs(n) == IF n < 0 THEN -n ELSE n
Sign(n) == IF n < 0 THEN -1 ELSE IF n > 0 THEN 1 ELSE 0

NaN == <<0, 0>>
Norm(n, d) ==
    IF d = 0 THEN <<Sign(n), 0>>
    ELSE LET g == GCD(Abs(n), Abs(d)) IN <<(Sign(d) * n) \div g, Abs(d) \div g>>
Num(n) == <<n, 1>>
IsNaN(a) == a = NaN
IsFinite(a) == a[2] # 0

RNeg(a) == <<-a[1], a[2]>>
RAdd(a, b) ==
    IF IsNaN(a) \/ IsNaN(b) THEN NaN
    ELSE IF ~IsFinite(a) THEN (IF ~IsFinite(b) /\ b # a THEN NaN ELSE a)
    ELSE IF ~IsFinite(b) THEN b
    ELSE LET g == GCD(a[2], b[2])
         IN  Norm(a[1] * (b[2] \div g) + b[1] * (a[2] \div g),
                  (a[2] \div g) * b[2])
RSub(a, b) == RAdd(a, RNeg(b))
RMul(a, b) ==
    IF IsNaN(a) \/ IsNaN(b) THEN NaN
    ELSE IF ~IsFinite(a) \/ ~IsFinite(b)
         THEN <<Sign(a[1]) * Sign(b[1]), 0>>
    ELSE LET g == GCD(Abs(a[1]), b[2])
             h == GCD(Abs(b[1]), a[2])
         IN  Norm((a[1] \div g) * (b[1] \div h), (a[2] \div h) * (b[2] \div g))
RDiv(a, b) ==
    IF IsNaN(a) \/ IsNaN(b) THEN NaN
    ELSE IF ~IsFinite(b) THEN (IF IsFinite(a) THEN Num(0) ELSE NaN)
    ELSE IF ~IsFinite(a) THEN <<a[1] * (IF b[1] < 0 THEN -1 ELSE 1), 0>>
    ELSE IF b[1] = 0 THEN Norm(a[1], 0)
    ELSE LET g == GCD(Abs(a[1]), Abs(b[1]))
             h == GCD(a[2], b[2])
         IN  Norm((a[1] \div g) * (b[2] \div h), (a[2] \div h) * (b[1] \div g))
\* a < b and a <= b; every comparison with NaN is false.
RLt(a, b) ==
    /\ ~IsNaN(a) /\ ~IsNaN(b)
    /\ IF IsFinite(a) /\ IsFinite(b)
       THEN LET g == GCD(a[2], b[2])
            IN  a[1] * (b[2] \div g) < b[1] * (a[2] \div g)
       ELSE IF IsFinite(a) THEN b[1] > 0
       ELSE IF IsFinite(b) THEN a[1] < 0
       ELSE a[1] < b[1]
RLeq(a, b) == ~IsNaN(a) /\ ~IsNaN(b) /\ (a = b \/ RLt(a, b))
\* n / d on two integers.
IDiv(n, d) == RDiv(Num(n), Num(d))

\* null
null == <<"null">>

\* `rest`, with `first` evaluated before it: the loops below run their
\* iterations in the order of the code instead of on demand from the last one.
After(first, rest) == IF first = first THEN rest ELSE rest

\* An array, with its entries computed when it is built (as the code does)
\* rather than at each use.
Built(array) == After(array, array)

---------------------------------------------------------------------------
\* inverse_classifier.js, linear-regression part: the chart scales and the
\* globals as the script leaves them before the load listener runs.

X_MIN == -10
X_MAX == 10
Y_MIN == -10
Y_MAX == 10

regressionGlobals ==
    [points |-> <<>>, nextPointId |-> 0,
     isDragging |-> FALSE, draggedPointId |-> null,
     regressionCoefficients |-> null,
     currentXMin |-> Num(X_MIN), currentXMax |-> Num(X_MAX),
     currentYMin |-> Num(Y_MIN), currentYMax |-> Num(Y_MAX)]

---------------------------------------------------------------------------
\* common.js: calculateRocAndAuc(labels, scores).

RECURSIVE RMaxOf(_)
RMaxOf(S) ==
    LET x == CHOOSE y \in S : TRUE
    IN  IF S = {x} THEN x
        ELSE LET m == RMaxOf(S \ {x}) IN IF RLt(m, x) THEN x ELSE m

\* pairs.sort((a, b) => b.score - a.score): Array.prototype.sort is stable, so
\* the result lists the scores in descending order and keeps the input order
\* among the pairs of one score.
RECURSIVE SortByScoreDesc(_, _)
SortByScoreDesc(pairs, keys) ==
    IF keys = {} THEN <<>>
    ELSE LET m == RMaxOf(keys)
         IN  SelectSeq(pairs, LAMBDA p : p.score = m)
                \o SortByScoreDesc(pairs, keys \ {m})

sortPairs(pairs) ==
    SortByScoreDesc(pairs, {pairs[i].score : i \in 1..Len(pairs)})

Point(x, y) == [x |-> x, y |-> y]
ChanceLine == <<Point(Num(0), Num(0)), Point(Num(1), Num(1))>>

\* The positive-class test of the sweep: pair.label === 1.
IsPositive(label) == label = 1

\* rocStep with the class totals exchanged in the two rates.
rocStep_swappedTotals(pair, total_pos, total_neg, acc) ==
    LET tp == IF IsPositive(pair.label) THEN acc.tp + 1 ELSE acc.tp
        fp == IF IsPositive(pair.label) THEN acc.fp ELSE acc.fp + 1
        tpr == IF total_neg > 0 THEN IDiv(tp, total_neg) ELSE Num(0)
        fpr == IF total_pos > 0 THEN IDiv(fp, total_pos) ELSE Num(0)
        area == RMul(RDiv(RAdd(tpr, acc.prev_tpr), Num(2)),
                     RSub(fpr, acc.prev_fpr))
    IN  [tp |-> tp, fp |-> fp,
         auc |-> RAdd(acc.auc, area),
         prev_tpr |-> tpr, prev_fpr |-> fpr,
         rocPoints |-> Append(acc.rocPoints, Point(fpr, tpr))]

\* rocStep with the trapezoid's division by 2 left out.
rocStep_noHalf(pair, total_pos, total_neg, acc) ==
    LET tp == IF IsPositive(pair.label) THEN acc.tp + 1 ELSE acc.tp
        fp == IF IsPositive(pair.label) THEN acc.fp ELSE acc.fp + 1
        tpr == IF total_pos > 0 THEN IDiv(tp, total_pos) ELSE Num(0)
        fpr == IF total_neg > 0 THEN IDiv(fp, total_neg) ELSE Num(0)
        area == RMul(RAdd(tpr, acc.prev_tpr), RSub(fpr, acc.prev_fpr))
    IN  [tp |-> tp, fp |-> fp,
         auc |-> RAdd(acc.auc, area),
         prev_tpr |-> tpr, prev_fpr |-> fpr,
         rocPoints |-> Append(acc.rocPoints, Point(fpr, tpr))]

\* The body of `for (const pair of pairs)` for one pair.
rocStep(pair, total_pos, total_neg, acc) ==
    LET tp == IF IsPositive(pair.label) THEN acc.tp + 1 ELSE acc.tp
        fp == IF IsPositive(pair.label) THEN acc.fp ELSE acc.fp + 1
        tpr == IF total_pos > 0 THEN IDiv(tp, total_pos) ELSE Num(0)
        fpr == IF total_neg > 0 THEN IDiv(fp, total_neg) ELSE Num(0)
        area == RMul(RDiv(RAdd(tpr, acc.prev_tpr), Num(2)),
                     RSub(fpr, acc.prev_fpr))
    IN  [tp |-> tp, fp |-> fp,
         auc |-> RAdd(acc.auc, area),
         prev_tpr |-> tpr, prev_fpr |-> fpr,
         rocPoints |-> Append(acc.rocPoints, Point(fpr, tpr))]

\* The loop over pairs[lo..hi] in order, entered with the accumulators `acc`
\* (the range is halved only to keep the evaluation shallow).
RECURSIVE rocSweep(_, _, _, _, _, _)
rocSweep(pairs, lo, hi, total_pos, total_neg, acc) ==
    IF lo > hi THEN acc
    ELSE IF lo = hi THEN rocStep(pairs[lo], total_pos, total_neg, acc)
    ELSE LET mid == (lo + hi) \div 2
             left == rocSweep(pairs, lo, mid, total_pos, total_neg, acc)
         IN  After(left, rocSweep(pairs, mid + 1, hi, total_pos, total_neg, left))

\* IsDegenerate without the test of the negative class.
IsDegenerate_onlyPos(total_pos, total_neg) == total_pos = 0

\* The early return of the degenerate label set.
IsDegenerate(total_pos, total_neg) == total_pos = 0 \/ total_neg = 0

calculateRocAndAuc(labels, scores) ==
    LET pairs == sortPairs([i \in 1..Len(labels) |->
                               [label |-> labels[i], score |-> scores[i]]])
        total_pos == Len(SelectSeq(labels, LAMBDA l : l = 1))
        total_neg == Len(labels) - total_pos
    IN  IF IsDegenerate(total_pos, total_neg)
        THEN [rocPoints |-> ChanceLine, auc |-> IDiv(1, 2)]
        ELSE LET r == rocSweep(pairs, 1, Len(pairs), total_pos, total_neg,
                               [tp |-> 0, fp |-> 0, auc |-> Num(0),
                                prev_tpr |-> Num(0), prev_fpr |-> Num(0),
                                rocPoints |-> <<Point(Num(0), Num(0))>>])
             IN  [rocPoints |-> r.rocPoints, auc |-> r.auc]

---------------------------------------------------------------------------
\* direct_classifier.js: getConfusionMatrix(labels, scores, threshold).

\* Prediction with > in place of >=.
Prediction_strict(score, threshold) == IF RLt(threshold, score) THEN 1 ELSE 0

\* scores[i] >= threshold ? 1 : 0
Prediction(score, threshold) == IF RLeq(threshold, score) THEN 1 ELSE 0

\* The callback of labels.forEach for sample i.
confusionStep(label, score, threshold, m) ==
    LET prediction == Prediction(score, threshold)
    IN  IF prediction = 1 /\ label = 1 THEN [m EXCEPT !.tp = @ + 1]
        ELSE IF prediction = 1 /\ label = 0 THEN [m EXCEPT !.fp = @ + 1]
        ELSE IF prediction = 0 /\ label = 0 THEN [m EXCEPT !.tn = @ + 1]
        ELSE IF prediction = 0 /\ label = 1 THEN [m EXCEPT !.fn = @ + 1]
        ELSE m

\* labels.forEach over the samples lo..hi in order (halved as in rocSweep).
RECURSIVE confusionSweep(_, _, _, _, _, _)
confusionSweep(labels, scores, threshold, lo, hi, m) ==
    IF lo > hi THEN m
    ELSE IF lo = hi THEN confusionStep(labels[lo], scores[lo], threshold, m)
    ELSE LET mid == (lo + hi) \div 2
             left == confusionSweep(labels, scores, threshold, lo, mid, m)
         IN  After(left,
                   confusionSweep(labels, scores, threshold, mid + 1, hi, left))

getConfusionMatrix(labels, scores, threshold) ==
    confusionSweep(labels, scores, threshold, 1, Len(labels),
                   [tp |-> 0, fp |-> 0, tn |-> 0, fn |-> 0])

---------------------------------------------------------------------------
\* common.js: randomGaussian(mean, stdDev) is mean + stdDev * z, where z is
\* the Box-Muller variate sqrt(-2 ln u) cos(2 pi v) of two uniform draws.  The
\* model explores NumSeeds outcomes of the uniform source; under outcome
\* `seed` the variate of the k-th call (k = 0, 1, ...) is NormalDraw(seed, k).

NormalDraw(seed, k) == ((seed * (k + 1)) % 3) - 1
Seeds == 1..NumSeeds

randomGaussian(mean, stdDev, z) == RAdd(mean, RMul(stdDev, Num(z)))

---------------------------------------------------------------------------
\* inverse_classifier.js: generateScoresFromMatrix(tp, fp, tn, fn).

\* generateScoresFromMatrix whose first loop labels one entry fewer with 0.
generateScoresFromMatrix_shortNegatives(tp, fp, tn, fn, seed) ==
    LET total_pos_real == tp + fn
        total_neg_real == tn + fp
        tpr == IDiv(tp, total_pos_real)
        tnr == IDiv(tn, total_neg_real)
        mean_pos == RAdd(IDiv(1, 2), RSub(tpr, IDiv(1, 2)))
        mean_neg == RSub(IDiv(1, 2), RSub(tnr, IDiv(1, 2)))
        stdDev == IDiv(15, 100)
        \* randomGaussian(mean, stdDev) for the variates -1, 0, 1, in this order
        neg == <<randomGaussian(mean_neg, stdDev, -1),
                 randomGaussian(mean_neg, stdDev, 0),
                 randomGaussian(mean_neg, stdDev, 1)>>
        pos == <<randomGaussian(mean_pos, stdDev, -1),
                 randomGaussian(mean_pos, stdDev, 0),
                 randomGaussian(mean_pos, stdDev, 1)>>
    IN  IF total_pos_real = 0 \/ total_neg_real = 0
        THEN [scores |-> <<>>, labels |-> <<>>]
        ELSE [scores |->
                [i \in 1..(total_neg_real + total_pos_real) |->
                    IF i <= total_neg_real
                    THEN neg[NormalDraw(seed, i - 1) + 2]
                    ELSE pos[NormalDraw(seed, i - 1) + 2]],
              labels |->
                [i \in 1..(total_neg_real + total_pos_real) |->
                    IF i < total_neg_real THEN 0 ELSE 1]]

generateScoresFromMatrix(tp, fp, tn, fn, seed) ==
    LET total_pos_real == tp + fn
        total_neg_real == tn + fp
        tpr == IDiv(tp, total_pos_real)
        tnr == IDiv(tn, total_neg_real)
        mean_pos == RAdd(IDiv(1, 2), RSub(tpr, IDiv(1, 2)))
        mean_neg == RSub(IDiv(1, 2), RSub(tnr, IDiv(1, 2)))
        stdDev == IDiv(15, 100)
        \* randomGaussian(mean, stdDev) for the variates -1, 0, 1, in this order
        neg == <<randomGaussian(mean_neg, stdDev, -1),
                 randomGaussian(mean_neg, stdDev, 0),
                 randomGaussian(mean_neg, stdDev, 1)>>
        pos == <<randomGaussian(mean_pos, stdDev, -1),
                 randomGaussian(mean_pos, stdDev, 0),
                 randomGaussian(mean_pos, stdDev, 1)>>
    IN  IF total_pos_real = 0 \/ total_neg_real = 0
        THEN [scores |-> <<>>, labels |-> <<>>]
        ELSE [scores |->
                [i \in 1..(total_neg_real + total_pos_real) |->
                    IF i <= total_neg_real
                    THEN neg[NormalDraw(seed, i - 1) + 2]
                    ELSE pos[NormalDraw(seed, i - 1) + 2]],
              labels |->
                [i \in 1..(total_neg_real + total_pos_real) |->
                    IF i <= total_neg_real THEN 0 ELSE 1]]

---------------------------------------------------------------------------
\* The derived rates of updateUI and updateApplication.

\* Metrics with the factor 2 of the F1 score left out.
Metrics_f1NoDouble(tp, fp, tn, fn, auc) ==
    LET total == tp + fp + tn + fn
        precision == IF (tp + fp) > 0 THEN IDiv(tp, tp + fp) ELSE Num(0)
        recall == IF (tp + fn) > 0 THEN IDiv(tp, tp + fn) ELSE Num(0)
        specificity == IF (tn + fp) > 0 THEN IDiv(tn, tn + fp) ELSE Num(0)
        f1score == IF RLt(Num(0), RAdd(precision, recall))
                   THEN RDiv(RMul(precision, recall), RAdd(precision, recall))
                   ELSE Num(0)
        accuracy == IF total > 0 THEN IDiv(tp + tn, total) ELSE Num(0)
    IN  <<auc, accuracy, precision, recall, specificity, f1score>>

\* Metrics with the guard of recall left out: tp / (tp + fn) whatever tp + fn.
Metrics_unguardedRecall(tp, fp, tn, fn, auc) ==
    LET total == tp + fp + tn + fn
        precision == IF (tp + fp) > 0 THEN IDiv(tp, tp + fp) ELSE Num(0)
        recall == IDiv(tp, tp + fn)
        specificity == IF (tn + fp) > 0 THEN IDiv(tn, tn + fp) ELSE Num(0)
        f1score == IF RLt(Num(0), RAdd(precision, recall))
                   THEN RDiv(RMul(Num(2), RMul(precision, recall)),
                             RAdd(precision, recall))
                   ELSE Num(0)
        accuracy == IF total > 0 THEN IDiv(tp + tn, total) ELSE Num(0)
    IN  <<auc, accuracy, precision, recall, specificity, f1score>>

Metrics(tp, fp, tn, fn, auc) ==
    LET total == tp + fp + tn + fn
        precision == IF (tp + fp) > 0 THEN IDiv(tp, tp + fp) ELSE Num(0)
        recall == IF (tp + fn) > 0 THEN IDiv(tp, tp + fn) ELSE Num(0)
        specificity == IF (tn + fp) > 0 THEN IDiv(tn, tn + fp) ELSE Num(0)
        f1score == IF RLt(Num(0), RAdd(precision, recall))
                   THEN RDiv(RMul(Num(2), RMul(precision, recall)),
                             RAdd(precision, recall))
                   ELSE Num(0)
        accuracy == IF total > 0 THEN IDiv(tp + tn, total) ELSE Num(0)
    IN  <<auc, accuracy, precision, recall, specificity, f1score>>

---------------------------------------------------------------------------
\* inverse_classifier.js: adjustValues(changedParam, newValue).

SumValues(values) == values.tp + values.fp + values.tn + values.fn

\* sortParams leaving the array as it is.
sortParams_unsorted(ps, values, descending) == ps

\* Array.prototype.sort on unlockedParams (stable): insertion of the last
\* element behind every element that does not have to follow it.
RECURSIVE sortParams(_, _, _)
sortParams(ps, values, descending) ==
    IF Len(ps) <= 1 THEN ps
    ELSE LET n == Len(ps)
             x == ps[n]
             front == sortParams(SubSeq(ps, 1, n - 1), values, descending)
             keep == {k \in 1..(n - 1) :
                        IF descending THEN values[front[k]] >= values[x]
                        ELSE values[front[k]] <= values[x]}
             k == Cardinality(keep)
         IN  SubSeq(front, 1, k) \o <<x>> \o SubSeq(front, k + 1, n - 1)

\* firstAdjustable with the bounds 0 and TOTAL_SAMPLES each missed by one.
firstAdjustable_offByOne(sorted, values, decrement) ==
    LET ok == {k \in 1..Len(sorted) :
                 IF decrement THEN values[sorted[k]] > 1
                 ELSE values[sorted[k]] < TOTAL_SAMPLES - 1}
    IN  IF ok = {} THEN ""
        ELSE sorted[CHOOSE k \in ok : \A j \in ok : k <= j]

\* firstAdjustable without the tests against 0 and TOTAL_SAMPLES.
firstAdjustable_noBoundCheck(sorted, values, decrement) ==
    IF Len(sorted) = 0 THEN "" ELSE sorted[1]

\* The `for (const param of unlockedParams)` scan: the first parameter that
\* can take a unit step, or "" when there is none.
firstAdjustable(sorted, values, decrement) ==
    LET ok == {k \in 1..Len(sorted) :
                 IF decrement THEN values[sorted[k]] > 0
                 ELSE values[sorted[k]] < TOTAL_SAMPLES}
    IN  IF ok = {} THEN ""
        ELSE sorted[CHOOSE k \in ok : \A j \in ok : k <= j]

\* stepValues moving the parameter by two units for one unit of diff.
stepValues_twoUnits(values, param, decrement) ==
    [values EXCEPT ![param] = IF decrement THEN @ - 2 ELSE @ + 2]

\* One unit step on the chosen parameter.
stepValues(values, param, decrement) ==
    [values EXCEPT ![param] = IF decrement THEN @ - 1 ELSE @ + 1]

\* One pass of `while (diff !== 0 && unlockedParams.length > 0) { ... }` on
\* the loop state st = [values, diff, unlockedParams, stopped]; a pass on a
\* state in which the loop has ended leaves it as it is.
loopPass(st) ==
    IF st.stopped \/ st.diff = 0 \/ Len(st.unlockedParams) = 0
    THEN [st EXCEPT !.stopped = TRUE]
    ELSE LET decrement == st.diff > 0
             sorted == sortParams(st.unlockedParams, st.values, decrement)
             param == firstAdjustable(sorted, st.values, decrement)
         IN  IF param = ""
             THEN [st EXCEPT !.unlockedParams = sorted, !.stopped = TRUE]
             ELSE [values |-> stepValues(st.values, param, decrement),
                   diff |-> IF decrement THEN st.diff - 1 ELSE st.diff + 1,
                   unlockedParams |-> sorted,
                   stopped |-> FALSE]

\* n passes in a row (halved only to keep the evaluation shallow).
RECURSIVE loopPasses(_, _)
loopPasses(st, n) ==
    IF n <= 0 THEN st
    ELSE IF n = 1 THEN loopPass(st)
    ELSE LET left == loopPasses(st, n \div 2)
         IN  After(left, loopPasses(left, n - (n \div 2)))

\* The loop states after each of n passes in a row, in order.
RECURSIVE loopTrace(_, _)
loopTrace(st, n) ==
    IF n <= 0 THEN <<>>
    ELSE IF n = 1 THEN <<loopPass(st)>>
    ELSE LET left == loopTrace(st, n \div 2)
         IN  After(left, left \o loopTrace(left[Len(left)], n - (n \div 2)))

\* The while loop: every pass that does not end the loop moves diff one unit
\* towards 0, so the loop has ended after at most |diff| + 1 passes.
adjustLoop(values, diff, unlockedParams) ==
    loopPasses([values |-> values, diff |-> diff,
                unlockedParams |-> unlockedParams, stopped |-> FALSE],
               Abs(diff) + 1)

\* unlockedOthers without the lockState filter.
unlockedOthers_ignoreLocks(changedParam, locks) ==
    SelectSeq(Params, LAMBDA p : p # changedParam)

\* Object.keys(values).filter(p => p !== changedParam && !lockState[p])
unlockedOthers(changedParam, locks) ==
    SelectSeq(Params, LAMBDA p : p # changedParam /\ ~locks[p])

\* The loop state on entry followed by the state after each pass of the loop.
adjustTrace(state, locks, changedParam, newValue) ==
    LET values == [state EXCEPT ![changedParam] = newValue]
        diff == SumValues(values) - TOTAL_SAMPLES
        entry == [values |-> values, diff |-> diff,
                  unlockedParams |-> unlockedOthers(changedParam, locks),
                  stopped |-> FALSE]
    IN  <<entry>> \o loopTrace(entry, Abs(diff) + 1)

\* commitValues without the diff === 0 test.
commitValues_always(state, adjusted) == adjusted.values

\* if (diff === 0) { currentState = { ...values }; }
commitValues(state, adjusted) ==
    IF adjusted.diff = 0 THEN adjusted.values ELSE state

\* adjustValues writing the edited field to currentState before it adjusts.
adjustedState_writeThrough(state, locks, changedParam, newValue) ==
    LET values == [state EXCEPT ![changedParam] = newValue]
        diff == SumValues(values) - TOTAL_SAMPLES
    IN  commitValues(values,
                     adjustLoop(values, diff, unlockedOthers(changedParam, locks)))

\* The value adjustValues leaves in currentState.
adjustedState(state, locks, changedParam, newValue) ==
    LET values == [state EXCEPT ![changedParam] = newValue]
        diff == SumValues(values) - TOTAL_SAMPLES
    IN  commitValues(state,
                     adjustLoop(values, diff, unlockedOthers(changedParam, locks)))


---------------------------------------------------------------------------
\* inverse_classifier.js: updateUI(), updateSliderDisabledState() and the
\* handlers registered by the load listener.
\*
\* updateUI overwrites the sliders and every chart with values computed from
\* currentState and from the scores it draws.  The model keeps the scores drawn
\* (sample) and the slider values; the chart contents are the functions of
\* them defined below.

\* updateSliderDisabledState that disables every slider only once all four
\* fields are locked.
updateSliderDisabledState_allFour(locks) ==
    LET lockedCount == Cardinality({p \in ParamSet : locks[p]})
    IN  [p \in ParamSet |-> locks[p] \/ lockedCount >= 4]

updateSliderDisabledState(locks) ==
    LET lockedCount == Cardinality({p \in ParamSet : locks[p]})
    IN  [p \in ParamSet |-> locks[p] \/ lockedCount >= 3]

InitialState == [tp |-> 40, fp |-> 10, tn |-> 45, fn |-> 5]
InitialLocks == [p \in ParamSet |-> FALSE]

\* parseInt(slider.value): the slider positions the model tries.
EditValues ==
    {(i * TOTAL_SAMPLES) \div (NumEditValues - 1) : i \in 0..(NumEditValues - 1)}

NoCall == [op |-> "load", param |-> "", value |-> 0,
           before |-> InitialState, locks |-> InitialLocks]
NoMetricCall == [fn |-> "none", labels |-> <<>>, scores |-> <<>>,
                 threshold |-> Num(0), result |-> <<>>]

\* const { scores, labels } = generateScoresFromMatrix(tp, fp, tn, fn)
updateUI(state, seed) ==
    generateScoresFromMatrix(state.tp, state.fp, state.tn, state.fn, seed)

\* The state the load listener leaves: updateSliderDisabledState(); updateUI().
InitInverse ==
    /\ page = "inverse"
    /\ regression = regressionGlobals
    /\ currentState = InitialState
    /\ lockState = InitialLocks
    /\ sliderDisabled = updateSliderDisabledState(InitialLocks)
    /\ sliderShown = InitialState
    /\ \E seed \in Seeds : sample = updateUI(InitialState, seed)
    /\ lastCall = NoCall
    /\ opCount = 0
    /\ call = NoMetricCall

\* slider 'input' listener: adjustValues(param, parseInt(slider.value)), which
\* ends with updateUI().  A disabled slider takes no input.
SliderInput(param, newValue) ==
    /\ \/ page = "inverse" /\ opCount < MaxOps
       \/ page = "locks" /\ opCount < MaxOps - 1
    /\ ~sliderDisabled[param]
    /\ LET next == adjustedState(currentState, lockState, param, newValue)
       IN  /\ currentState' = next
           /\ sliderShown' = next
           /\ \E seed \in Seeds : sample' = updateUI(next, seed)
    /\ lastCall' = [op |-> "adjustValues", param |-> param, value |-> newValue,
                    before |-> currentState, locks |-> lockState]
    /\ opCount' = opCount + 1
    /\ UNCHANGED <<page, regression, lockState, sliderDisabled, call>>

\* '.lock-toggle' click listener.
ToggleLock(param) ==
    /\ \/ page = "inverse" /\ opCount < MaxOps
       \/ page = "locks"
    /\ LET locks == [lockState EXCEPT ![param] = ~@]
       IN  /\ lockState' = locks
           /\ sliderDisabled' = updateSliderDisabledState(locks)
    /\ lastCall' = [op |-> "toggle", param |-> param, value |-> 0,
                    before |-> currentState, locks |-> lockState]
    /\ opCount' = IF page = "locks" THEN opCount ELSE opCount + 1
    /\ UNCHANGED <<page, regression, currentState, sliderShown, sample, call>>

NextInverse ==
    \/ \E param \in ParamSet, newValue \in EditValues : SliderInput(param, newValue)
    \/ \E param \in ParamSet : ToggleLock(param)

SpecInverse == InitInverse /\ [][NextInverse]_vars

\* The inverse page once more, for what is evaluated in each of its states for
\* every field and every value.
SpecAdjust == InitInverse /\ [][NextInverse]_vars

\* The same page with any number of lock clicks around fewer slider edits
\* ("locks"): every lock configuration is reached.
InitLocks ==
    /\ page = "locks"
    /\ regression = regressionGlobals
    /\ currentState = InitialState
    /\ lockState = InitialLocks
    /\ sliderDisabled = updateSliderDisabledState(InitialLocks)
    /\ sliderShown = InitialState
    /\ \E seed \in Seeds : sample = updateUI(InitialState, seed)
    /\ lastCall = NoCall
    /\ opCount = 0
    /\ call = NoMetricCall

SpecLocks == InitLocks /\ [][NextInverse]_vars

\* rocChart.data.datasets[0].data and the auc of the last updateUI.
inverseRoc == calculateRocAndAuc(sample.labels, sample.scores)
\* metricsChart.data.datasets[0].data of the last updateUI.
inverseMetrics ==
    Metrics(sliderShown.tp, sliderShown.fp, sliderShown.tn, sliderShown.fn,
            inverseRoc.auc)

---------------------------------------------------------------------------
\* direct_classifier.js: generateData, the classifier's scores, and
\* updateApplication(), which the load listener and both sliders run.

\* The labels generateData returns: N_SAMPLES_PER_CLASS of class 0, then
\* N_SAMPLES_PER_CLASS of class 1.
generateData ==
    [i \in 1..(2 * N_SAMPLES_PER_CLASS) |->
        IF i <= N_SAMPLES_PER_CLASS THEN 0 ELSE 1]

\* model.predict_proba(data)[i]: a posterior in 0..1 that depends on the data
\* drawn.  The model keeps a multiple of 1/ScoreDen for each sample, fixed by
\* the outcome `seed` of the uniform source.
predict_proba(seed, i) ==
    IDiv(((seed * i) + (i \div 7)) % (ScoreDen + 1), ScoreDen)

\* The labels and scores updateApplication computes everything from.
updateApplication(seed) ==
    [labels |-> generateData,
     scores |-> [i \in 1..(2 * N_SAMPLES_PER_CLASS) |-> predict_proba(seed, i)]]

InitDirect ==
    /\ page = "direct"
    /\ regression = regressionGlobals
    /\ currentState = InitialState
    /\ lockState = InitialLocks
    /\ sliderDisabled = updateSliderDisabledState(InitialLocks)
    /\ sliderShown = InitialState
    /\ \E seed \in Seeds : sample = updateApplication(seed)
    /\ lastCall = NoCall
    /\ opCount = 0
    /\ call = NoMetricCall

\* 'input' listener of separationSlider and stdDevSlider.
UpdateApplication ==
    /\ page = "direct"
    /\ opCount < MaxOps
    /\ \E seed \in Seeds : sample' = updateApplication(seed)
    /\ lastCall' = [NoCall EXCEPT !.op = "updateApplication"]
    /\ opCount' = opCount + 1
    /\ UNCHANGED <<page, regression, currentState, lockState, sliderDisabled, sliderShown, call>>

\* const { tp, fp, tn, fn } = getConfusionMatrix(labels, scores, 0.5)
directMatrix == getConfusionMatrix(sample.labels, sample.scores, IDiv(1, 2))
\* rocChart.data.datasets[0].data and the auc of the last updateApplication.
directRoc == calculateRocAndAuc(sample.labels, sample.scores)
\* metricsChart.data.datasets[0].data of the last updateApplication.
directMetrics ==
    Metrics(directMatrix.tp, directMatrix.fp, directMatrix.tn, directMatrix.fn,
            directRoc.auc)

---------------------------------------------------------------------------
\* The metric functions called on their own, on every labels/scores input of
\* at most MaxLen samples.

\* Label values: the two classes and one value that is neither.
LabelValues == {0, 1, 2}
ScoreValues == {IDiv(k, ScoreDen) : k \in 0..ScoreDen}

SeqsOf(S, n) == [1..n -> S]

InitCalls ==
    /\ page = "metrics"
    /\ regression = regressionGlobals
    /\ currentState = InitialState
    /\ lockState = InitialLocks
    /\ sliderDisabled = updateSliderDisabledState(InitialLocks)
    /\ sliderShown = InitialState
    /\ sample = [scores |-> <<>>, labels |-> <<>>]
    /\ lastCall = NoCall
    /\ opCount = 0
    /\ \E n \in 0..MaxLen :
          \E labels \in SeqsOf(LabelValues, n), scores \in SeqsOf(ScoreValues, n) :
             call = [NoMetricCall EXCEPT !.labels = labels, !.scores = scores]

CallRocAndAuc ==
    /\ page = "metrics"
    /\ call.fn = "none"
    /\ call' = [call EXCEPT !.fn = "calculateRocAndAuc",
                            !.result = calculateRocAndAuc(call.labels, call.scores)]
    /\ UNCHANGED <<page, regression, currentState, lockState, sliderDisabled, sliderShown,
                   sample, lastCall, opCount>>

CallConfusionMatrix(threshold) ==
    /\ page = "metrics"
    /\ call.fn = "none"
    /\ call' = [call EXCEPT !.fn = "getConfusionMatrix",
                            !.threshold = threshold,
                            !.result = getConfusionMatrix(call.labels, call.scores,
                                                          threshold)]
    /\ UNCHANGED <<page, regression, currentState, lockState, sliderDisabled, sliderShown,
                   sample, lastCall, opCount>>

\* The derived rates computed on their own ("rates"), from every matrix of
\* counts in 0..MaxCount, held in currentState.
InitRates ==
    /\ page = "rates"
    /\ regression = regressionGlobals
    /\ currentState \in [ParamSet -> 0..MaxCount]
    /\ lockState = InitialLocks
    /\ sliderDisabled = updateSliderDisabledState(InitialLocks)
    /\ sliderShown = InitialState
    /\ sample = [scores |-> <<>>, labels |-> <<>>]
    /\ lastCall = NoCall
    /\ opCount = 0
    /\ call = NoMetricCall

\* The rates of updateUI / updateApplication for the counts in currentState
\* (the auc comes from calculateRocAndAuc and is passed through).
CallMetrics ==
    /\ page = "rates"
    /\ call.fn = "none"
    /\ call' = [call EXCEPT !.fn = "Metrics",
                            !.result = Metrics(currentState.tp, currentState.fp,
                                               currentState.tn, currentState.fn,
                                               IDiv(1, 2))]
    /\ UNCHANGED <<page, regression, currentState, lockState, sliderDisabled, sliderShown,
                   sample, lastCall, opCount>>

\* generateScoresFromMatrix(tp, fp, tn, fn) for the counts in currentState.
CallGenerateScores ==
    /\ page = "rates"
    /\ call.fn = "none"
    /\ \E seed \in Seeds :
          call' = [call EXCEPT !.fn = "generateScoresFromMatrix",
                               !.result = generateScoresFromMatrix(
                                              currentState.tp, currentState.fp,
                                              currentState.tn, currentState.fn, seed)]
    /\ UNCHANGED <<page, regression, currentState, lockState, sliderDisabled, sliderShown,
                   sample, lastCall, opCount>>

InitMetrics == InitDirect \/ InitCalls \/ InitRates

NextMetrics ==
    \/ UpdateApplication
    \/ CallRocAndAuc
    \/ \E threshold \in ScoreValues : CallConfusionMatrix(threshold)
    \/ CallMetrics
    \/ CallGenerateScores

SpecMetrics == InitMetrics /\ [][NextMetrics]_vars

---------------------------------------------------------------------------
\* common.js: one call of randomGaussian(mean, stdDev), statement by statement
\* ("gaussian").  call.pc is the statement about to run: "whileU" and "whileV"
\* are the two redraw loops, "return" the return statement; call.u and call.v
\* are the locals, as numerators over UniformDen.

Uniforms == 0..(UniformDen - 1)

\* NeedsDraw with the test left out: the loop always ends after one draw.
NeedsDraw_never(x) == FALSE

\* The loop condition u === 0 (v === 0).
NeedsDraw(x) == x = 0

\* sqrt(-2 ln u) cos(2 pi v) of the return statement, to the nearest integer
\* of its two factors: the radius is >= 3/2 below u = 1/4 and < 1/2 above
\* u = 7/8; the cosine is positive in the first and last quarter turn.
BoxMuller(u, v) ==
    LET radius == IF 4 * u < UniformDen THEN 2
                  ELSE IF 8 * u < 7 * UniformDen THEN 1 ELSE 0
        cosine == IF 4 * v < UniformDen \/ 4 * v > 3 * UniformDen THEN 1
                  ELSE IF 4 * v = UniformDen \/ 4 * v = 3 * UniformDen THEN 0
                  ELSE -1
    IN  radius * cosine

\* The (mean, stdDev) arguments of the call sites.
GaussianArgs ==
    {<<Num(0), IDiv(3, 2)>>, <<Num(0), Num(2)>>, <<IDiv(1, 2), IDiv(15, 100)>>}

\* let u = 0, v = 0;
InitGaussian ==
    /\ page = "gaussian"
    /\ regression = regressionGlobals
    /\ currentState = InitialState
    /\ lockState = InitialLocks
    /\ sliderDisabled = updateSliderDisabledState(InitialLocks)
    /\ sliderShown = InitialState
    /\ sample = [scores |-> <<>>, labels |-> <<>>]
    /\ lastCall = NoCall
    /\ opCount = 0
    /\ \E args \in GaussianArgs :
          call = [fn |-> "randomGaussian", mean |-> args[1], stdDev |-> args[2],
                  pc |-> "whileU", u |-> 0, v |-> 0, draws |-> 0,
                  logArg |-> -1, result |-> <<>>]

CountDraw(n) == IF n < MaxDraws THEN n + 1 ELSE n

\* while (u === 0) u = Math.random();  with Math.random() returning r / UniformDen
DrawU(r) ==
    /\ page = "gaussian"
    /\ call.pc = "whileU"
    /\ call' = [call EXCEPT !.u = r, !.draws = CountDraw(@),
                            !.pc = IF NeedsDraw(r) THEN "whileU" ELSE "whileV"]
    /\ UNCHANGED <<page, regression, currentState, lockState, sliderDisabled, sliderShown,
                   sample, lastCall, opCount>>

\* while (v === 0) v = Math.random();
DrawV(r) ==
    /\ page = "gaussian"
    /\ call.pc = "whileV"
    /\ call' = [call EXCEPT !.v = r, !.draws = CountDraw(@),
                            !.pc = IF NeedsDraw(r) THEN "whileV" ELSE "return"]
    /\ UNCHANGED <<page, regression, currentState, lockState, sliderDisabled, sliderShown,
                   sample, lastCall, opCount>>

\* return mean + stdDev * Math.sqrt(-2.0 * Math.log(u)) * Math.cos(2.0 * Math.PI * v);
\* call.logArg records the argument Math.log was given.
ReturnGaussian ==
    /\ page = "gaussian"
    /\ call.pc = "return"
    /\ call' = [call EXCEPT !.pc = "done", !.logArg = call.u,
                            !.result = randomGaussian(call.mean, call.stdDev,
                                                      BoxMuller(call.u, call.v))]
    /\ UNCHANGED <<page, regression, currentState, lockState, sliderDisabled, sliderShown,
                   sample, lastCall, opCount>>

NextGaussian ==
    \/ \E r \in Uniforms : DrawU(r)
    \/ \E r \in Uniforms : DrawV(r)
    \/ ReturnGaussian

SpecGaussian == InitGaussian /\ [][NextGaussian]_vars

\* The call keeps running, and the uniform source does not return 0 forever.
FairGaussian ==
    /\ WF_vars(\E r \in Uniforms \ {0} : DrawU(r))
    /\ WF_vars(\E r \in Uniforms \ {0} : DrawV(r))
    /\ WF_vars(ReturnGaussian)

SpecGaussianFair == SpecGaussian /\ FairGaussian

---------------------------------------------------------------------------
\* inverse_classifier.js, linear-regression part: the linear algebra and
\* fitPolynomialRegression, predict, calculateStatistics.  A matrix is a
\* sequence of rows; every entry is a number <<n, d>> as above.

RAbs(a) == IF a[1] < 0 THEN RNeg(a) ELSE a

\* Math.pow(x, j) for an integer j >= 0 (Math.pow(x, 0) is 1 for every x).
RECURSIVE RPow(_, _)
RPow(x, j) == IF j = 0 THEN Num(1) ELSE RMul(RPow(x, j - 1), x)

\* The integer part of the square root of n >= 0.
RECURSIVE ISqrt(_)
ISqrt(n) ==
    IF n < 2 THEN n
    ELSE LET s == 2 * ISqrt(n \div 4)
         IN  IF (s + 1) * (s + 1) <= n THEN s + 1 ELSE s

\* Math.sqrt(a): the exact root where it is rational, NaN below 0, and the
\* root left as <<"sqrt", n, d>> where it is irrational.
Sqrt(a) ==
    IF IsNaN(a) \/ a[1] < 0 THEN NaN
    ELSE IF ~IsFinite(a) THEN a
    ELSE IF ISqrt(a[1]) * ISqrt(a[1]) = a[1] /\ ISqrt(a[2]) * ISqrt(a[2]) = a[2]
         THEN <<ISqrt(a[1]), ISqrt(a[2])>>
    ELSE <<"sqrt", a[1], a[2]>>

\* values.reduce((sum, v) => sum + v, 0)
RECURSIVE RSum(_)
RSum(values) ==
    IF Len(values) = 0 THEN Num(0)
    ELSE RAdd(RSum(SubSeq(values, 1, Len(values) - 1)), values[Len(values)])

buildVandermonde(X, degree) ==
    Built([i \in 1..Len(X) |-> [j \in 1..(degree + 1) |-> RPow(X[i], j - 1)]])

transpose(matrix) ==
    Built([j \in 1..Len(matrix[1]) |-> [i \in 1..Len(matrix) |-> matrix[i][j]]])

multiply(A, B) ==
    Built([i \in 1..Len(A) |->
              [j \in 1..Len(B[1]) |->
                  RSum([k \in 1..Len(A[1]) |-> RMul(A[i][k], B[k][j])])]])

\* The pivot search of column i: maxRow after the rows k..n have been looked at.
RECURSIVE findPivot(_, _, _, _)
findPivot(M, i, k, maxRow) ==
    IF k > Len(M) THEN maxRow
    ELSE findPivot(M, i, k + 1,
                   IF RLt(RAbs(M[maxRow][i]), RAbs(M[k][i])) THEN k ELSE maxRow)

\* [M[i], M[maxRow]] = [M[maxRow], M[i]]
swapRows(M, i, maxRow) ==
    [M EXCEPT ![i] = M[maxRow], ![maxRow] = M[i]]

\* Row k after `for (let j = i; j <= n; j++) M[k][j] -= factor * M[i][j]`.
eliminateRow(M, i, k) ==
    LET factor == RDiv(M[k][i], M[i][i])
    IN  [j \in 1..Len(M[k]) |->
            IF j >= i THEN RSub(M[k][j], RMul(factor, M[i][j])) ELSE M[k][j]]

\* Forward elimination from column i on.
RECURSIVE forwardEliminate(_, _)
forwardEliminate(M, i) ==
    IF i > Len(M) THEN M
    ELSE LET S == swapRows(M, i, findPivot(M, i, i + 1, i))
             E == Built([k \in 1..Len(S) |->
                            IF k > i THEN eliminateRow(S, i, k) ELSE S[k]])
         IN  forwardEliminate(E, i + 1)

\* Back substitution from row i up, on st = [M, x].
RECURSIVE backSubstitute(_, _)
backSubstitute(st, i) ==
    IF i < 1 THEN st.x
    ELSE LET n == Len(st.M)
             xi == RDiv(st.M[i][n + 1], st.M[i][i])
             M == Built([k \in 1..n |->
                            IF k < i
                            THEN [st.M[k] EXCEPT
                                     ![n + 1] = RSub(@, RMul(st.M[k][i], xi))]
                            ELSE st.M[k]])
         IN  backSubstitute([M |-> M, x |-> [st.x EXCEPT ![i] = xi]], i - 1)

solveLinearSystem(A, b) ==
    LET n == Len(A)
        M == forwardEliminate(Built([i \in 1..n |-> Append(A[i], b[i][1])]), 1)
    IN  backSubstitute([M |-> M, x |-> [i \in 1..n |-> Num(0)]], n)

\* enoughPoints with degree in place of degree + 1 (for a non-empty X).
enoughPoints_offByOne(X, degree) == Len(X) > 0 /\ ~(Len(X) < degree)

\* !(X.length < degree + 1)
enoughPoints(X, degree) == ~(Len(X) < degree + 1)

fitPolynomialRegression(X, y, degree) ==
    IF ~enoughPoints(X, degree) THEN null
    ELSE LET V == buildVandermonde(X, degree)
             Vt == transpose(V)
             VtV == multiply(Vt, V)
             Vty == multiply(Vt, [i \in 1..Len(y) |-> <<y[i]>>])
         IN  solveLinearSystem(VtV, Vty)

predict(X, coefficients) ==
    IF coefficients = null THEN [i \in 1..Len(X) |-> Num(0)]
    ELSE Built([i \in 1..Len(X) |->
                   RSum([c \in 1..Len(coefficients) |->
                            RMul(coefficients[c], RPow(X[i], c - 1))])])

\* calculateStatistics with r2 = 1 - ssRes / ssTot unguarded.
rSquared_unguarded(ssRes, ssTot) == RSub(Num(1), RDiv(ssRes, ssTot))

\* ssTot > 0 ? 1 - ssRes / ssTot : 0
rSquared(ssRes, ssTot) ==
    IF RLt(Num(0), ssTot) THEN RSub(Num(1), RDiv(ssRes, ssTot)) ELSE Num(0)

calculateStatistics(yTrue, yPred, n, degree) ==
    LET residuals == Built([i \in 1..Len(yTrue) |-> RSub(yTrue[i], yPred[i])])
        ssRes == RSum([i \in 1..Len(residuals) |-> RMul(residuals[i], residuals[i])])
        yMean == RDiv(RSum(yTrue), Num(Len(yTrue)))
        ssTot == RSum([i \in 1..Len(yTrue) |-> RPow(RSub(yTrue[i], yMean), 2)])
        r2 == rSquared(ssRes, ssTot)
        adjustedR2 == IF n > degree + 1
                      THEN RSub(Num(1), RDiv(RMul(RSub(Num(1), r2), Num(n - 1)),
                                             Num(n - degree - 1)))
                      ELSE r2
        mse == RDiv(ssRes, Num(n))
        rmse == Sqrt(mse)
        mae == RDiv(RSum([i \in 1..Len(residuals) |-> RAbs(residuals[i])]), Num(n))
    IN  [r2 |-> r2, adjustedR2 |-> adjustedR2, mse |-> mse, rmse |-> rmse,
         mae |-> mae, residuals |-> residuals]

---------------------------------------------------------------------------
\* inverse_classifier.js, linear-regression part: the page.  The variable
\* `regression` holds the globals of the page and what it shows:
\*   points, nextPointId, isDragging, draggedPointId, regressionCoefficients,
\*   currentXMin .. currentYMax      the globals of lines 161-177
\*   clickedOnPoint                  the local flag of setupEventListeners
\*   degreeSlider, showResiduals, showConfidence     the inputs' values
\*   mainChart       mainChart.data.datasets[0..4].data, as a sequence 1..5
\*   residualChart   residualChart.data.datasets[0].data
\*   statistics      the texts updateStatisticsDisplay writes
\* A curve dataset (regression line, confidence band) is empty or holds one
\* generator [from, to, step, coefficients, multiplier, sigma]: it stands for
\* the entries {x, y: p(x) + multiplier * sigma} for x = from, from + step, ...
\* up to `to`, with p the polynomial of the coefficients.

\* Math.max(a, b) and Math.min(a, b)
RMax(a, b) == IF IsNaN(a) \/ IsNaN(b) THEN NaN ELSE IF RLt(a, b) THEN b ELSE a
RMin(a, b) == IF IsNaN(a) \/ IsNaN(b) THEN NaN ELSE IF RLt(b, a) THEN b ELSE a

\* k more decimal digits of rem / d behind the digits acc: <<digits, rest>>.
RECURSIVE LongDivision(_, _, _, _)
LongDivision(acc, rem, d, k) ==
    IF k = 0 THEN <<acc, rem>>
    ELSE LongDivision(acc * 10 + ((rem * 10) \div d), (rem * 10) % d, d, k - 1)

\* The integer part of n / d * 10^5, for n >= 0.
FiveDecimals(n, d) == (n \div d) * 100000 + LongDivision(0, n % d, d, 5)[1]

\* k more decimal digits of the square root of n / d, by the digit-by-digit
\* method, on st = [root, rest, rem]: `root` the digits found, `rest` what
\* is left of the radicand above root^2, `rem` the division remainder.
RECURSIVE RootDigits(_, _, _)
RootDigits(st, d, k) ==
    IF k = 0 THEN st.root
    ELSE LET rest == st.rest * 100 + ((st.rem * 100) \div d)
             x == CHOOSE v \in 0..9 :
                     /\ (20 * st.root + v) * v <= rest
                     /\ v < 9 => (20 * st.root + v + 1) * (v + 1) > rest
         IN  RootDigits([root |-> 10 * st.root + x,
                         rest |-> rest - (20 * st.root + x) * x,
                         rem |-> (st.rem * 100) % d], d, k - 1)

\* The integer part of sqrt(n / d) * 10^5, for n >= 0.
FiveRootDecimals(n, d) ==
    RootDigits([root |-> ISqrt(n \div d),
                rest |-> (n \div d) - ISqrt(n \div d) * ISqrt(n \div d),
                rem |-> n % d], d, 5)

\* The text of value.toFixed(4): <<n>> stands for the decimal numeral of
\* n / 10^4 and <<"-", n>> for the same behind a minus sign, n being the
\* integer nearest to |value| * 10^4 (the larger one on a tie).  value is a
\* number, or a root <<"sqrt", p, q>> left by Sqrt.
toFixed4(value) ==
    IF Len(value) = 3
    THEN <<(FiveRootDecimals(value[2], value[3]) + 5) \div 10>>
    ELSE IF IsNaN(value) THEN <<"NaN">>
    ELSE IF ~IsFinite(value)
         THEN (IF value[1] > 0 THEN <<"Infinity">> ELSE <<"-Infinity">>)
    ELSE LET n == (FiveDecimals(Abs(value[1]), value[2]) + 5) \div 10
         IN  IF value[1] < 0 THEN <<"-", n>> ELSE <<n>>

\* updateStatisticsDisplay(stats, n)
updateStatisticsDisplay(stats, n) ==
    [r2Value         |-> IF n > 0 THEN toFixed4(stats.r2) ELSE <<"-">>,
     adjustedR2Value |-> IF n > 0 THEN toFixed4(stats.adjustedR2) ELSE <<"-">>,
     mseValue        |-> IF n > 0 THEN toFixed4(stats.mse) ELSE <<"-">>,
     maeValue        |-> IF n > 0 THEN toFixed4(stats.mae) ELSE <<"-">>,
     rmseValue       |-> IF n > 0 THEN toFixed4(stats.rmse) ELSE <<"-">>,
     nPointsValue    |-> n]

\* { r2: 0, adjustedR2: 0, mse: 0, rmse: 0, mae: 0 }
ZeroStatistics ==
    [r2 |-> Num(0), adjustedR2 |-> Num(0), mse |-> Num(0), rmse |-> Num(0),
     mae |-> Num(0)]

\* The entries of a curve dataset, from its generator.
Curve(from, to, coefficients, multiplier, sigma) ==
    <<[from |-> from, to |-> to, step |-> IDiv(1, 5),
       coefficients |-> coefficients, multiplier |-> multiplier, sigma |-> sigma]>>

\* clearedDatasets leaving the regression line as it was.
clearedDatasets_keepLine(mainChart) ==
    [mainChart EXCEPT ![3] = <<>>, ![4] = <<>>, ![5] = <<>>]

\* mainChart.data.datasets[1..4].data = [] of the branch without enough points.
clearedDatasets(mainChart) ==
    [mainChart EXCEPT ![2] = <<>>, ![3] = <<>>, ![4] = <<>>, ![5] = <<>>]

\* The residual segments: for each point its position, its prediction and a
\* break { x: NaN, y: NaN }.
residualLines(X, y, yPred) ==
    [k \in 1..(3 * Len(X)) |->
        LET i == (k + 2) \div 3
        IN  IF k % 3 = 1 THEN Point(X[i], y[i])
            ELSE IF k % 3 = 2 THEN Point(X[i], yPred[i])
            ELSE Point(NaN, NaN)]

\* The end of updateRegression(): the datasets and texts written once the
\* coefficients, the predictions yPred, the statistics and the sigma of
\* calculateConfidenceInterval are known.
shownRegression(st, shown, coefficients, yPred, stats, sigma) ==
    [st EXCEPT
        !.regressionCoefficients = coefficients,
        !.mainChart =
            [shown EXCEPT
                ![2] = Curve(st.currentXMin, st.currentXMax, coefficients, 0, Num(0)),
                ![3] = IF st.showConfidence
                       THEN Curve(st.currentXMin, st.currentXMax, coefficients,
                                  -2, sigma)
                       ELSE <<>>,
                ![4] = IF st.showConfidence
                       THEN Curve(st.currentXMin, st.currentXMax, coefficients,
                                  2, sigma)
                       ELSE <<>>,
                ![5] = IF st.showResiduals
                       THEN residualLines([i \in 1..Len(st.points) |-> st.points[i].x],
                                          [i \in 1..Len(st.points) |-> st.points[i].y],
                                          yPred)
                       ELSE <<>>],
        !.residualChart =
            [i \in 1..Len(yPred) |-> Point(yPred[i], stats.residuals[i])],
        !.statistics = updateStatisticsDisplay(stats, Len(st.points))]

\* sigma of calculateConfidenceInterval(xCurve, coefficients, residuals)
residualSigma(residuals, n, degree) ==
    Sqrt(RDiv(RSum([i \in 1..n |-> RMul(residuals[i], residuals[i])]),
              Num(IF n - degree - 1 > 1 THEN n - degree - 1 ELSE 1)))

\* updateRegression() from the statistics on.
statedRegression(st, shown, coefficients, yPred, stats) ==
    shownRegression(st, shown, coefficients, yPred, stats,
                    residualSigma(stats.residuals, Len(st.points), st.degreeSlider))

\* updateRegression() from the predictions on.
predictedRegression(st, shown, y, coefficients, yPred) ==
    statedRegression(st, shown, coefficients, yPred,
                     calculateStatistics(y, yPred, Len(st.points), st.degreeSlider))

\* updateRegression() from the fit on.
fittedRegression(st, shown, X, y, coefficients) ==
    predictedRegression(st, shown, y, coefficients, predict(X, coefficients))

\* updateRegression() on the page state st.
updateRegression(st) ==
    LET n == Len(st.points)
        shown == [st.mainChart EXCEPT
                     ![1] = [i \in 1..n |-> Point(st.points[i].x, st.points[i].y)]]
    IN  IF n < st.degreeSlider + 1
        THEN [st EXCEPT
                 !.mainChart = clearedDatasets(shown),
                 !.residualChart = <<>>,
                 !.statistics = updateStatisticsDisplay(ZeroStatistics, n)]
        ELSE fittedRegression(st, shown,
                 [i \in 1..n |-> st.points[i].x], [i \in 1..n |-> st.points[i].y],
                 fitPolynomialRegression([i \in 1..n |-> st.points[i].x],
                                         [i \in 1..n |-> st.points[i].y],
                                         st.degreeSlider))

\* findNearestPoint(x, y): the position in `points` of the first point closer
\* than 1.0 to (x, y), or 0 when there is none (null).
findNearestPoint(points, x, y) ==
    LET near == {i \in 1..Len(points) :
                    RLt(RAdd(RPow(RSub(points[i].x, x), 2),
                             RPow(RSub(points[i].y, y), 2)), Num(1))}
    IN  IF near = {} THEN 0 ELSE CHOOSE i \in near : \A j \in near : i <= j

clampX(st, x) == RMax(st.currentXMin, RMin(st.currentXMax, x))
clampY(st, y) == RMax(st.currentYMin, RMin(st.currentYMax, y))

\* addPoint that does not advance nextPointId.
addPoint_sameId(st, x, y) ==
    updateRegression(
        [st EXCEPT !.points = Append(@, [x |-> clampX(st, x), y |-> clampY(st, y),
                                         id |-> st.nextPointId])])

addPoint(st, x, y) ==
    updateRegression(
        [st EXCEPT !.points = Append(@, [x |-> clampX(st, x), y |-> clampY(st, y),
                                         id |-> st.nextPointId]),
                   !.nextPointId = @ + 1])

removePoint(st, id) ==
    updateRegression(
        [st EXCEPT !.points = SelectSeq(@, LAMBDA p : p.id # id)])

updatePointPosition(st, id, x, y) ==
    LET found == {i \in 1..Len(st.points) : st.points[i].id = id}
    IN  IF found = {} THEN st
        ELSE LET i == CHOOSE k \in found : \A j \in found : k <= j
             IN  updateRegression(
                    [st EXCEPT !.points[i].x = clampX(st, x),
                               !.points[i].y = clampY(st, y)])

zoom(st, factor, centerX, centerY) ==
    LET xRange == RSub(st.currentXMax, st.currentXMin)
        yRange == RSub(st.currentYMax, st.currentYMin)
        newXRange == RMul(xRange, factor)
        newYRange == RMul(yRange, factor)
        xRatio == RDiv(RSub(centerX, st.currentXMin), xRange)
        yRatio == RDiv(RSub(centerY, st.currentYMin), yRange)
    IN  [st EXCEPT
            !.currentXMin = RSub(centerX, RMul(newXRange, xRatio)),
            !.currentXMax = RAdd(centerX, RMul(newXRange, RSub(Num(1), xRatio))),
            !.currentYMin = RSub(centerY, RMul(newYRange, yRatio)),
            !.currentYMax = RAdd(centerY, RMul(newYRange, RSub(Num(1), yRatio)))]

\* Math.min(...values) and Math.max(...values) of a non-empty array.
RECURSIVE RMinOf(_)
RMinOf(values) ==
    IF Len(values) = 1 THEN values[1]
    ELSE RMin(RMinOf(SubSeq(values, 1, Len(values) - 1)), values[Len(values)])
RECURSIVE RMaxOfSeq(_)
RMaxOfSeq(values) ==
    IF Len(values) = 1 THEN values[1]
    ELSE RMax(RMaxOfSeq(SubSeq(values, 1, Len(values) - 1)), values[Len(values)])

resetZoom(st) ==
    IF Len(st.points) = 0
    THEN [st EXCEPT !.currentXMin = Num(X_MIN), !.currentXMax = Num(X_MAX),
                    !.currentYMin = Num(Y_MIN), !.currentYMax = Num(Y_MAX)]
    ELSE LET xs == [i \in 1..Len(st.points) |-> st.points[i].x]
             ys == [i \in 1..Len(st.points) |-> st.points[i].y]
             xMin == RMinOf(xs)
             xMax == RMaxOfSeq(xs)
             yMin == RMinOf(ys)
             yMax == RMaxOfSeq(ys)
             xPadding == RMax(RMul(RSub(xMax, xMin), IDiv(1, 10)), Num(1))
             yPadding == RMax(RMul(RSub(yMax, yMin), IDiv(1, 10)), Num(1))
         IN  [st EXCEPT !.currentXMin = RSub(xMin, xPadding),
                        !.currentXMax = RAdd(xMax, xPadding),
                        !.currentYMin = RSub(yMin, yPadding),
                        !.currentYMax = RAdd(yMax, yPadding)]

---------------------------------------------------------------------------
\* The regression functions called on their own ("fit"), on every pair of
\* parallel arrays X, y of at most MaxLen coordinates and every degree in
\* 0..MaxDegree.

\* Coordinates tried; two equal x make the normal equations singular.
XValues == {Num(-1), Num(0), Num(2)}
YValues == {Num(-1), Num(1)}
Degrees == 0..MaxDegree

NoFitCall == [fn |-> "none", X |-> <<>>, y |-> <<>>, degree |-> 1, result |-> <<>>]

InitFit ==
    /\ page = "fit"
    /\ regression = regressionGlobals
    /\ currentState = InitialState
    /\ lockState = InitialLocks
    /\ sliderDisabled = updateSliderDisabledState(InitialLocks)
    /\ sliderShown = InitialState
    /\ sample = [scores |-> <<>>, labels |-> <<>>]
    /\ lastCall = NoCall
    /\ opCount = 0
    /\ \E n \in 0..MaxLen, degree \in Degrees :
          \E X \in SeqsOf(XValues, n), y \in SeqsOf(YValues, n) :
             call = [NoFitCall EXCEPT !.X = X, !.y = y, !.degree = degree]

CallFit ==
    /\ page = "fit"
    /\ call.fn = "none"
    /\ call' = [call EXCEPT !.fn = "fitPolynomialRegression",
                            !.result = fitPolynomialRegression(call.X, call.y,
                                                               call.degree)]
    /\ UNCHANGED <<page, regression, currentState, lockState, sliderDisabled, sliderShown,
                   sample, lastCall, opCount>>

\* fitPolynomialRegression, then predict on X, then calculateStatistics, as
\* updateRegression chains them.
CallFitStatistics ==
    /\ page = "fit"
    /\ call.fn = "none"
    /\ Len(call.X) > 0
    /\ LET coefficients == fitPolynomialRegression(call.X, call.y, call.degree)
           yPred == predict(call.X, coefficients)
       IN  call' = [call EXCEPT
                       !.fn = "calculateStatistics",
                       !.result = [coefficients |-> coefficients,
                                   yPred |-> yPred,
                                   stats |-> calculateStatistics(call.y, yPred,
                                                 Len(call.X), call.degree)]]
    /\ UNCHANGED <<page, regression, currentState, lockState, sliderDisabled, sliderShown,
                   sample, lastCall, opCount>>

NextFit ==
    \/ CallFit
    \/ CallFitStatistics

SpecFit == InitFit /\ [][NextFit]_vars

---------------------------------------------------------------------------
\* inverse_classifier.js, linear-regression part: main() and the listeners of
\* setupEventListeners().  A mouse event carries the chart coordinates that
\* getChartCoordinates computes for it.

\* Math.random() of the k-th call (k = 0, 1, ...) under outcome `seed`: the
\* model tries the outcomes 9/20, 1/2 and 11/20, which keep the coordinates
\* drawn over the initial scale at -1, 0 and 1.
UniformDraw(seed, k) == IDiv(9 + ((seed * (k + 1) + (k \div 3)) % 3), 20)

\* low + Math.random() * (high - low)
uniformBetween(low, high, r) == RAdd(low, RMul(r, RSub(high, low)))

\* The values the degree slider takes.
SliderDegrees == 1..MaxDegree

\* initCharts(): every dataset of the two charts empty (the zero line aside).
initCharts(st, degree, showResiduals, showConfidence) ==
    [points |-> st.points, nextPointId |-> st.nextPointId,
     isDragging |-> st.isDragging, draggedPointId |-> st.draggedPointId,
     regressionCoefficients |-> st.regressionCoefficients,
     currentXMin |-> st.currentXMin, currentXMax |-> st.currentXMax,
     currentYMin |-> st.currentYMin, currentYMax |-> st.currentYMax,
     clickedOnPoint |-> FALSE,
     degreeSlider |-> degree,
     showResiduals |-> showResiduals, showConfidence |-> showConfidence,
     mainChart |-> <<<<>>, <<>>, <<>>, <<>>, <<>>>>,
     residualChart |-> <<>>,
     statistics |-> updateStatisticsDisplay(ZeroStatistics, 0)]

\* The loop of main(): points.push({ x, y, id: nextPointId++ }) for i < count,
\* with x uniform over the initial scale and y = 2 + 0.5 x + randomGaussian(0, 1.5).
RECURSIVE pushInitialPoints(_, _, _)
pushInitialPoints(st, seed, count) ==
    IF count = 0 THEN st
    ELSE LET prev == pushInitialPoints(st, seed, count - 1)
             i == count - 1
             x == uniformBetween(Num(X_MIN), Num(X_MAX), UniformDraw(seed, i))
             y == RAdd(RAdd(Num(2), RMul(IDiv(1, 2), x)),
                       randomGaussian(Num(0), IDiv(3, 2), NormalDraw(seed, i)))
         IN  [prev EXCEPT !.points = Append(@, [x |-> x, y |-> y,
                                                id |-> prev.nextPointId]),
                          !.nextPointId = @ + 1]

\* main()
main(seed, degree, showResiduals, showConfidence) ==
    updateRegression(
        pushInitialPoints(initCharts(regressionGlobals, degree, showResiduals,
                                     showConfidence), seed, 8))

InitRegression ==
    /\ page = "regression"
    /\ currentState = InitialState
    /\ lockState = InitialLocks
    /\ sliderDisabled = updateSliderDisabledState(InitialLocks)
    /\ sliderShown = InitialState
    /\ sample = [scores |-> <<>>, labels |-> <<>>]
    /\ lastCall = NoCall
    /\ opCount = 0
    /\ call = NoMetricCall
    /\ \E seed \in Seeds, degree \in SliderDegrees,
          showResiduals \in BOOLEAN, showConfidence \in BOOLEAN :
          regression = main(seed, degree, showResiduals, showConfidence)

\* How a listener is entered: during a drag, right after a contextmenu event
\* that cancelled one, or neither (kept in lastCall.param).
enteredAs ==
    IF regression.isDragging THEN "dragging"
    ELSE IF lastCall.op = "contextmenu" /\ lastCall.param = "dragging" THEN "cancelled"
    ELSE ""

\* What every listener of the page leaves alone, and the count of handler runs.
RegressionHandler(name) ==
    /\ page \in {"regression", "pointer"}
    /\ opCount < (IF page = "pointer" THEN MaxPointerOps ELSE MaxOps)
    /\ opCount' = opCount + 1
    /\ lastCall' = [NoCall EXCEPT !.op = name, !.param = enteredAs]
    /\ UNCHANGED <<page, currentState, lockState, sliderDisabled, sliderShown,
                   sample, call>>

\* The chart coordinates tried for a mouse event: on the first and on the last
\* point, on the middle of the initial view and on a spot above it.
MousePositions ==
    {<<Num(0), Num(0)>>, <<Num(0), Num(12)>>}
        \cup {<<regression.points[i].x, regression.points[i].y>> :
                 i \in {1, Len(regression.points)} \cap DOMAIN regression.points}

\* degreeSlider 'input'
DegreeInput(degree) ==
    /\ RegressionHandler("degreeSlider")
    /\ regression' = updateRegression([regression EXCEPT !.degreeSlider = degree])

\* showResiduals 'change'
ToggleResiduals ==
    /\ RegressionHandler("showResiduals")
    /\ regression' = updateRegression([regression EXCEPT !.showResiduals = ~@])

\* showConfidence 'change'
ToggleConfidence ==
    /\ RegressionHandler("showConfidence")
    /\ regression' = updateRegression([regression EXCEPT !.showConfidence = ~@])

\* clearPointsBtn 'click'
ClearPoints ==
    /\ RegressionHandler("clearPoints")
    /\ regression' = updateRegression([regression EXCEPT !.points = <<>>])

\* The loop of the addRandomBtn listener for i < count; for x the model tries
\* the outcome 1/2 of Math.random(), the middle of the current scale.
RECURSIVE addRandomPoints(_, _, _)
addRandomPoints(st, seed, count) ==
    IF count = 0 THEN st
    ELSE LET prev == addRandomPoints(st, seed, count - 1)
             i == count - 1
             x == uniformBetween(prev.currentXMin, prev.currentXMax, IDiv(1, 2))
             y == RAdd(uniformBetween(prev.currentYMin, prev.currentYMax,
                                      UniformDraw(seed, i)),
                       randomGaussian(Num(0), Num(2), NormalDraw(seed, i)))
         IN  addPoint(prev, x, y)

\* addRandomBtn 'click'
AddRandom(seed) ==
    /\ RegressionHandler("addRandom")
    /\ regression' = addRandomPoints(regression, seed, 5)

\* resetZoomBtn 'click'
ResetZoom ==
    /\ RegressionHandler("resetZoom")
    /\ regression' = resetZoom(regression)

\* canvas 'wheel': zoom in for deltaY < 0, out otherwise.
Wheel(deltaY, x, y) ==
    /\ RegressionHandler("wheel")
    /\ regression' = zoom(regression,
                          IF deltaY < 0 THEN IDiv(9, 10) ELSE IDiv(11, 10), x, y)

\* canvas 'mousedown' with the left button
MouseDown(x, y) ==
    /\ RegressionHandler("mousedown")
    /\ LET nearestPoint == findNearestPoint(regression.points, x, y)
       IN  regression' =
              IF nearestPoint # 0
              THEN [regression EXCEPT
                       !.isDragging = TRUE,
                       !.draggedPointId = regression.points[nearestPoint].id,
                       !.clickedOnPoint = TRUE]
              ELSE [regression EXCEPT !.clickedOnPoint = FALSE]

\* document 'mousemove' during a drag (outside a drag it only sets the cursor)
MouseMove(x, y) ==
    /\ regression.isDragging
    /\ RegressionHandler("mousemove")
    /\ regression' = updatePointPosition(regression, regression.draggedPointId,
                                         clampX(regression, x), clampY(regression, y))

\* document 'mouseup' with the left button
MouseUp(x, y) ==
    /\ RegressionHandler("mouseup")
    /\ LET ended ==
              IF regression.isDragging
              THEN [regression EXCEPT !.isDragging = FALSE,
                                      !.draggedPointId = null]
              ELSE IF /\ ~regression.clickedOnPoint
                      /\ RLeq(regression.currentXMin, x)
                      /\ RLeq(x, regression.currentXMax)
                      /\ RLeq(regression.currentYMin, y)
                      /\ RLeq(y, regression.currentYMax)
                   THEN addPoint(regression, x, y)
              ELSE regression
       IN  regression' = [ended EXCEPT !.clickedOnPoint = FALSE]

\* The contextmenu listener without its test of isDragging: the point under
\* the pointer is removed during a drag as well.
ContextMenu_noCancel(x, y) ==
    /\ RegressionHandler("contextmenu")
    /\ LET clickedPoint == findNearestPoint(regression.points, x, y)
       IN  regression' =
              IF clickedPoint # 0
              THEN removePoint(regression, regression.points[clickedPoint].id)
              ELSE regression

\* canvas 'contextmenu'
ContextMenu(x, y) ==
    /\ RegressionHandler("contextmenu")
    /\ LET clickedPoint == findNearestPoint(regression.points, x, y)
       IN  regression' =
              IF regression.isDragging
              THEN [regression EXCEPT !.isDragging = FALSE,
                                      !.draggedPointId = null]
              ELSE IF clickedPoint # 0
                   THEN removePoint(regression, regression.points[clickedPoint].id)
              ELSE regression

NextRegression ==
    \/ \E degree \in SliderDegrees : DegreeInput(degree)
    \/ ToggleResiduals
    \/ ToggleConfidence
    \/ ClearPoints
    \/ \E seed \in Seeds : AddRandom(seed)
    \/ ResetZoom
    \/ \E deltaY \in {-1, 1} : Wheel(deltaY, Num(0), Num(0))
    \/ \E pos \in MousePositions : MouseDown(pos[1], pos[2])
    \/ \E pos \in MousePositions : MouseMove(pos[1], pos[2])
    \/ \E pos \in MousePositions : MouseUp(pos[1], pos[2])
    \/ \E pos \in MousePositions : ContextMenu(pos[1], pos[2])

SpecRegression == InitRegression /\ [][NextRegression]_vars

\* The same page followed one listener further along its pointer and button
\* listeners alone ("pointer"), from the load with the slider on degree 1 and
\* both boxes unchecked.
InitPointer ==
    /\ page = "pointer"
    /\ currentState = InitialState
    /\ lockState = InitialLocks
    /\ sliderDisabled = updateSliderDisabledState(InitialLocks)
    /\ sliderShown = InitialState
    /\ sample = [scores |-> <<>>, labels |-> <<>>]
    /\ lastCall = NoCall
    /\ opCount = 0
    /\ call = NoMetricCall
    /\ \E seed \in Seeds : regression = main(seed, 1, FALSE, FALSE)

NextPointer ==
    \/ ClearPoints
    \/ \E seed \in Seeds : AddRandom(seed)
    \/ \E pos \in MousePositions : MouseDown(pos[1], pos[2])
    \/ \E pos \in MousePositions : MouseMove(pos[1], pos[2])
    \/ \E pos \in MousePositions : MouseUp(pos[1], pos[2])
    \/ \E pos \in MousePositions : ContextMenu(pos[1], pos[2])

SpecPointer == InitPointer /\ [][NextPointer]_vars

---------------------------------------------------------------------------
\* The Fourier page (fourier_transform.js).  Its numbers are sums of
\* products of samples with cosines and sines of multiples of 15 degrees, so
\* they are kept exactly as <<a, b, c, d, q>> for
\* (a + b*sqrt(2) + c*sqrt(3) + d*sqrt(6)) / q, with integers a..d, q > 0 and
\* no common factor.  Rounding of the floating-point operations is left out.

SAMPLING_RATE == 256

QNorm(a, b, c, d, q) ==
    LET g == GCD(GCD(GCD(Abs(a), Abs(b)), GCD(Abs(c), Abs(d))), q)
    IN  <<a \div g, b \div g, c \div g, d \div g, q \div g>>
QZero == <<0, 0, 0, 0, 1>>
QInt(n) == <<n, 0, 0, 0, 1>>
\* The rational r = <<n, d>> as such a number.
QOf(r) == <<r[1], 0, 0, 0, r[2]>>
QNeg(x) == <<-x[1], -x[2], -x[3], -x[4], x[5]>>
QAdd(x, y) ==
    LET g == GCD(x[5], y[5])
        m == y[5] \div g
        n == x[5] \div g
    IN  QNorm(x[1] * m + y[1] * n, x[2] * m + y[2] * n, x[3] * m + y[3] * n,
              x[4] * m + y[4] * n, x[5] * m)
QSub(x, y) == QAdd(x, QNeg(y))
QMul(x, y) ==
    QNorm(x[1] * y[1] + 2 * x[2] * y[2] + 3 * x[3] * y[3] + 6 * x[4] * y[4],
          x[1] * y[2] + x[2] * y[1] + 3 * x[3] * y[4] + 3 * x[4] * y[3],
          x[1] * y[3] + x[3] * y[1] + 2 * x[2] * y[4] + 2 * x[4] * y[2],
          x[1] * y[4] + x[4] * y[1] + x[2] * y[3] + x[3] * y[2],
          x[5] * y[5])
\* x / n for an integer n > 0.
QDivInt(x, n) == QNorm(x[1], x[2], x[3], x[4], x[5] * n)

\* Angles are counted in turns: the rational t stands for the angle
\* 2 * Math.PI * t.  SinTwentyFourth(j) is the sine of j / 24 of a turn.
RECURSIVE SinTwentyFourth(_)
SinTwentyFourth(j) ==
    IF j > 12 THEN QNeg(SinTwentyFourth(j - 12))
    ELSE IF j > 6 THEN SinTwentyFourth(12 - j)
    ELSE CASE j = 0 -> QZero
           [] j = 1 -> <<0, -1, 0, 1, 4>>
           [] j = 2 -> <<1, 0, 0, 0, 2>>
           [] j = 3 -> <<0, 1, 0, 0, 2>>
           [] j = 4 -> <<0, 0, 1, 0, 2>>
           [] j = 5 -> <<0, 1, 0, 1, 4>>
           [] j = 6 -> QInt(1)

\* The twenty-fourths of a turn in the angle t, from 0 to 23.
TwentyFourths(t) == (t[1] * (24 \div t[2])) % 24
\* Math.sin and Math.cos of the angle t.
MathSin(t) == SinTwentyFourth(TwentyFourths(t))
MathCos(t) == SinTwentyFourth((TwentyFourths(t) + 6) % 24)

\* Math.sqrt(x) of a sum of two squares: coef * sqrt(radicand), coef a
\* rational; a magnitude divided or multiplied by a number keeps its radicand.
MathSqrt(x) == [coef |-> IF x = QZero THEN Num(0) ELSE Num(1), radicand |-> x]
Scaled(c, mag) == [mag EXCEPT !.coef = RMul(c, @)]
\* mag * mag
Squared(mag) ==
    LET c == RMul(mag.coef, mag.coef)
    IN  QNorm(c[1] * mag.radicand[1], c[1] * mag.radicand[2],
              c[1] * mag.radicand[3], c[1] * mag.radicand[4],
              c[2] * mag.radicand[5])

\* a & b on two non-negative integers.
RECURSIVE BitAnd(_, _)
BitAnd(a, b) ==
    IF a = 0 \/ b = 0 THEN 0
    ELSE (a % 2) * (b % 2) + 2 * BitAnd(a \div 2, b \div 2)

\* The inner while loop carrying every bit of ii one place up, and the top
\* one round to the bottom, instead of mirroring them (bit is N >> 1).
reverseBits_rotated(j, bit, ii) ==
    IF bit > 0
    THEN j + ((2 * ii) % (2 * bit)) + ((2 * ii) \div (2 * bit))
    ELSE j

\* The inner while loop of the bit-reverse copy: the value of j at its end.
RECURSIVE reverseBits(_, _, _)
reverseBits(j, bit, ii) ==
    IF bit > 0
    THEN reverseBits(IF ii % 2 = 1 THEN j + bit ELSE j, bit \div 2, ii \div 2)
    ELSE j

\* An element of new Array(N) that was never written.
undefined == <<"undefined">>

\* for (let i = 0; i < N; i++) { ...; re[j] = signal[i]; } from i on.
RECURSIVE bitReverseCopy(_, _, _)
bitReverseCopy(re, i, signal) ==
    IF i < Len(signal)
    THEN bitReverseCopy(
             [re EXCEPT ![reverseBits(0, Len(signal) \div 2, i) + 1] = signal[i + 1]],
             i + 1, signal)
    ELSE re

\* angleInc = -2 * Math.PI / step with the sign left out.
angleInc_positive(step) == IDiv(1, step)

\* angleInc = -2 * Math.PI / step
angleInc(step) == IDiv(-1, step)

\* One butterfly on the elements a = group + i and b = group + i + halfStep.
butterfly(st, a, b, angle) ==
    LET cos == MathCos(angle)
        sin == MathSin(angle)
        evenRe == st.re[a + 1]
        evenIm == st.im[a + 1]
        oddRe == QSub(QMul(st.re[b + 1], cos), QMul(st.im[b + 1], sin))
        oddIm == QAdd(QMul(st.re[b + 1], sin), QMul(st.im[b + 1], cos))
    IN  [re |-> [st.re EXCEPT ![a + 1] = QAdd(evenRe, oddRe),
                              ![b + 1] = QSub(evenRe, oddRe)],
         im |-> [st.im EXCEPT ![a + 1] = QAdd(evenIm, oddIm),
                              ![b + 1] = QSub(evenIm, oddIm)]]

\* for (let i = 0; i < halfStep; i++) from i on.
RECURSIVE butterflies(_, _, _, _)
butterflies(st, group, i, step) ==
    IF i < step \div 2
    THEN butterflies(butterfly(st, group + i, group + i + step \div 2,
                               RMul(angleInc(step), Num(i))),
                     group, i + 1, step)
    ELSE st

\* for (let group = 0; group < N; group += step) from group on.
RECURSIVE groups(_, _, _)
groups(st, group, step) ==
    IF group < Len(st.re)
    THEN groups(butterflies(st, group, 0, step), group + step, step)
    ELSE st

\* for (let step = 2; step <= N; step <<= 1) from step on.
RECURSIVE steps(_, _)
steps(st, step) ==
    IF step <= Len(st.re) THEN steps(groups(st, 0, step), 2 * step) ELSE st

\* The inner loop of dft for the bin k, from the sample n on.
RECURSIVE dftSums(_, _, _, _)
dftSums(signal, k, n, sums) ==
    IF n < Len(signal)
    THEN LET angle == IDiv(-(k * n), Len(signal))
         IN  dftSums(signal, k, n + 1,
                     [sumRe |-> QAdd(sums.sumRe, QMul(signal[n + 1], MathCos(angle))),
                      sumIm |-> QAdd(sums.sumIm, QMul(signal[n + 1], MathSin(angle)))])
    ELSE sums

\* dft(signal)
dft(signal) ==
    LET N == Len(signal)
        bins == Built([k \in 1..N |->
                          dftSums(signal, k - 1, 0, [sumRe |-> QZero, sumIm |-> QZero])])
    IN  [re |-> Built([k \in 1..N |-> bins[k].sumRe]),
         im |-> Built([k \in 1..N |-> bins[k].sumIm])]

\* fft(signal)
fft(signal) ==
    LET N == Len(signal)
    IN  IF BitAnd(N, N - 1) # 0 THEN dft(signal)
        ELSE steps([re |-> bitReverseCopy([i \in 1..N |-> undefined], 0, signal),
                    im |-> [i \in 1..N |-> QZero]], 2)

\* The halving of the last magnitude left out.
halveNyquist_never(magnitudes, N) == magnitudes

\* if (N % 2 === 0) magnitudes[magnitudes.length - 1] /= 2
halveNyquist(magnitudes, N) ==
    IF N % 2 = 0
    THEN [magnitudes EXCEPT ![Len(magnitudes)] = Scaled(IDiv(1, 2), @)]
    ELSE magnitudes

\* computeMagnitudeSpectrum(dftResult)
computeMagnitudeSpectrum(dftResult) ==
    LET N == Len(dftResult.re)
        pushed == Built([i \in 1..(N \div 2 + 1) |->
                     Scaled(IDiv(1, N),
                            Scaled(Num(2),
                                   MathSqrt(QAdd(QMul(dftResult.re[i], dftResult.re[i]),
                                                 QMul(dftResult.im[i], dftResult.im[i])))))])
    IN  halveNyquist([pushed EXCEPT ![1] = Scaled(IDiv(1, 2), @)], N)

\* generateSineWave with t = n, the sample index not divided by the rate.
generateSineWave_noRate(frequency, amplitude, phaseDeg, samplingRate, numSamples) ==
    Built([i \in 1..numSamples |->
        QMul(QInt(amplitude),
             MathSin(RAdd(Num(frequency * (i - 1)), IDiv(phaseDeg, 360))))])

\* generateSineWave(frequency, amplitude, phaseDeg, samplingRate, numSamples);
\* the angle of sample n is frequency * n / samplingRate + phaseDeg / 360 turns.
generateSineWave(frequency, amplitude, phaseDeg, samplingRate, numSamples) ==
    Built([i \in 1..numSamples |->
        QMul(QInt(amplitude),
             MathSin(RAdd(RMul(Num(frequency), IDiv(i - 1, samplingRate)),
                          IDiv(phaseDeg, 360))))])

\* The factor of magnitude i in totalPower, always one half.
powerFactor_half(i, length, numSamples) == IDiv(1, 2)

\* (i === 0 || (i === magnitudes.length - 1 && numSamples % 2 === 0)) ? 1 : 0.5
powerFactor(i, length, numSamples) ==
    IF i = 0 \/ (i = length - 1 /\ numSamples % 2 = 0) THEN Num(1) ELSE IDiv(1, 2)

\* magnitudes.reduce(...) of updateSignalInfo, from index i on.
RECURSIVE totalPower(_, _, _, _)
totalPower(sum, i, magnitudes, numSamples) ==
    IF i < Len(magnitudes)
    THEN totalPower(QAdd(sum, QMul(QOf(powerFactor(i, Len(magnitudes), numSamples)),
                                    Squared(magnitudes[i + 1]))),
                    i + 1, magnitudes, numSamples)
    ELSE sum

\* signal.reduce((sum, val) => sum + val * val, 0) from index i on.
RECURSIVE sumOfSquares(_, _, _)
sumOfSquares(sum, i, signal) ==
    IF i < Len(signal)
    THEN sumOfSquares(QAdd(sum, QMul(signal[i + 1], signal[i + 1])), i + 1, signal)
    ELSE sum

\* The two values updateSignalInfo computes.
updateSignalInfo(numSamples, signal, magnitudes) ==
    [totalPower |-> totalPower(QZero, 0, magnitudes, numSamples),
     rmsAmplitude |-> MathSqrt(QDivInt(sumOfSquares(QZero, 0, signal), Len(signal)))]

\* The functions of the Fourier page called on their own: a call starts from
\* a real signal, given sample by sample or as the arguments of
\* generateSineWave, and `call` holds the arguments and the value returned.

\* The lengths whose angles are multiples of 15 degrees.
SignalLengths == {1, 2, 3, 4, 6, 8}
SampleValues == (-MaxAmplitude..MaxAmplitude) \ {0}
\* The signals of length N with at most MaxNonZero samples other than 0.
SparseSignals(N) ==
    UNION {{[i \in 1..N |-> IF i \in S THEN QInt(v[i]) ELSE QZero] :
               v \in [S -> SampleValues]} :
           S \in {T \in SUBSET (1..N) : Cardinality(T) <= MaxNonZero}}

\* Arguments of generateSineWave: the frequency on bin k of numSamples
\* samples, at the rate of the page or at 24 samples per second.
SineWaves ==
    {[frequency |-> k * (rate \div N), amplitude |-> A, phaseDeg |-> phaseDeg,
      samplingRate |-> rate, numSamples |-> N] :
        N \in SignalLengths \ {1, 2}, k \in 1..7, rate \in {SAMPLING_RATE, 24},
        A \in (1..MaxAmplitude) \cup {10}, phaseDeg \in {0, 90}}

\* wave holds the arguments of generateSineWave, if the signal comes from it.
NoFourierCall == [fn |-> "none", wave |-> <<>>, signal |-> <<>>, result |-> <<>>]

InitFourier ==
    /\ page = "fourier"
    /\ regression = regressionGlobals
    /\ currentState = InitialState
    /\ lockState = InitialLocks
    /\ sliderDisabled = updateSliderDisabledState(InitialLocks)
    /\ sliderShown = InitialState
    /\ sample = [scores |-> <<>>, labels |-> <<>>]
    /\ lastCall = NoCall
    /\ opCount = 0
    /\ \/ \E N \in SignalLengths : \E signal \in SparseSignals(N) :
             call = [NoFourierCall EXCEPT !.signal = signal]
       \/ \E wave \in SineWaves :
             /\ wave.samplingRate % wave.numSamples = 0
             /\ wave.frequency < wave.samplingRate
             /\ call = [NoFourierCall EXCEPT !.wave = <<wave>>]

FourierCall ==
    /\ page = "fourier"
    /\ UNCHANGED <<page, regression, currentState, lockState, sliderDisabled,
                   sliderShown, sample, lastCall, opCount>>

CallGenerateSineWave ==
    /\ FourierCall
    /\ call.fn = "none" /\ call.wave # <<>> /\ call.signal = <<>>
    /\ call' = [call EXCEPT
                   !.signal = generateSineWave(call.wave[1].frequency,
                                 call.wave[1].amplitude, call.wave[1].phaseDeg,
                                 call.wave[1].samplingRate, call.wave[1].numSamples)]

CallFft ==
    /\ FourierCall
    /\ call.fn = "none" /\ call.signal # <<>>
    /\ call' = [call EXCEPT !.fn = "fft", !.result = fft(call.signal)]

CallDft ==
    /\ FourierCall
    /\ call.fn = "none" /\ call.signal # <<>>
    /\ call' = [call EXCEPT !.fn = "dft", !.result = dft(call.signal)]

\* fft, then computeMagnitudeSpectrum, then updateSignalInfo, as
\* updateVisualizations chains them.
CallSpectrum ==
    /\ FourierCall
    /\ call.fn = "none" /\ call.signal # <<>>
    /\ LET dftResult == fft(call.signal)
           magnitudes == computeMagnitudeSpectrum(dftResult)
       IN  call' = [call EXCEPT
                       !.fn = "computeMagnitudeSpectrum",
                       !.result = [dftResult |-> dftResult,
                                   magnitudes |-> magnitudes,
                                   info |-> updateSignalInfo(Len(call.signal),
                                                call.signal, magnitudes)]]

NextFourier ==
    \/ CallGenerateSineWave
    \/ CallFft
    \/ CallDft
    \/ CallSpectrum

SpecFourier == InitFourier /\ [][NextFourier]_vars

---------------------------------------------------------------------------
\* The two classifier pages with the functions they share called on their own.

InitClassifier == InitInverse \/ InitMetrics
NextClassifier == NextInverse \/ NextMetrics
SpecClassifier == InitClassifier /\ [][NextClassifier]_vars

---------------------------------------------------------------------------
\* fourier_transform.js: the page ("signal").  call.form holds the controls
\* generateCompositeSignal reads, call.signal and call.individualWaves what the
\* last updateVisualizations drew from them.

WAVE_COLORS == <<"#1976d2", "#d32f2f", "#388e3c", "#f57c00">>

\* signal[n] += wave[n] for every n.
addSamples(signal, wave) ==
    Built([n \in 1..Len(signal) |-> QAdd(signal[n], wave[n])])

\* addWave without the test of the checkbox: a wave is added whenever its
\* amplitude is positive.
addWave_ignoreCheckbox(form, i, signal) ==
    IF form.waves[i].amplitude > 0
    THEN addSamples(signal,
             generateSineWave(form.waves[i].frequency, form.waves[i].amplitude,
                              form.waves[i].phase, SAMPLING_RATE, form.numSamples))
    ELSE signal

\* generateCompositeSignal: the loop body for wave i, on the signal so far.
addWave(form, i, signal) ==
    IF ~form.waves[i].enabled THEN signal
    ELSE IF form.waves[i].amplitude > 0
    THEN addSamples(signal,
             generateSineWave(form.waves[i].frequency, form.waves[i].amplitude,
                              form.waves[i].phase, SAMPLING_RATE, form.numSamples))
    ELSE signal

\* generateCompositeSignal: individualWaves.push({...}) for wave i.
pushWave(form, i, individualWaves) ==
    IF form.waves[i].enabled /\ form.waves[i].amplitude > 0
    THEN Append(individualWaves,
                [frequency |-> form.waves[i].frequency,
                 amplitude |-> form.waves[i].amplitude,
                 phase |-> form.waves[i].phase,
                 color |-> WAVE_COLORS[i],
                 data |-> generateSineWave(form.waves[i].frequency,
                              form.waves[i].amplitude, form.waves[i].phase,
                              SAMPLING_RATE, form.numSamples)])
    ELSE individualWaves

\* signal[n] += randomGaussian(0, noiseLevel), with the variates noise[n].
addNoise(form, noise, signal) ==
    IF form.addNoise
    THEN Built([n \in 1..form.numSamples |->
             QAdd(signal[n],
                  QOf(randomGaussian(Num(0), Num(form.noiseLevel), noise[n])))])
    ELSE signal

\* generateCompositeSignal(), with the controls in form and the variates of
\* randomGaussian in noise.
generateCompositeSignal(form, noise) ==
    [time |-> [n \in 1..form.numSamples |-> IDiv(n - 1, SAMPLING_RATE)],
     signal |->
        addNoise(form, noise,
            addWave(form, 4, addWave(form, 3, addWave(form, 2, addWave(form, 1,
                [n \in 1..form.numSamples |-> QZero]))))),
     individualWaves |->
        pushWave(form, 4, pushWave(form, 3, pushWave(form, 2,
            pushWave(form, 1, <<>>)))),
     numSamples |-> form.numSamples]

\* Values of the controls: sample counts and frequencies whose angles are
\* multiples of 45 degrees, phases, amplitudes and noise levels.
CompositeLengths == {4, 8}
WaveFrequencies == {32, 64}
WavePhases == {0, 90}
WaveAmplitudes == 0..MaxAmplitude
NoiseLevels == 1..(MaxAmplitude + 1)
WaveSet == 1..4
\* The variates drawn for the noise of one signal.
NoiseDraws(numSamples) ==
    {[n \in 1..numSamples |-> NormalDraw(seed, n - 1)] : seed \in Seeds}

\* updateVisualizations(): what the time-domain chart gets from the form.
updateVisualizations(form, noise) ==
    [fn |-> "updateVisualizations",
     form |-> form,
     signal |-> generateCompositeSignal(form, noise).signal,
     individualWaves |-> generateCompositeSignal(form, noise).individualWaves]

\* dftResult and magnitudes of updateVisualizations for the signal drawn.
spectrumOf(dftResult) ==
    [dftResult |-> dftResult, magnitudes |-> computeMagnitudeSpectrum(dftResult)]
shownSpectrum(signal) == spectrumOf(fft(signal))

\* main(): the controls as the document gives them, then the initial
\* updateVisualizations().  The document is not part of the sources: the
\* first one, two or three waves are taken as checked, with either sample
\* count and noise unchecked.
InitSignal ==
    /\ page = "signal"
    /\ regression = regressionGlobals
    /\ currentState = InitialState
    /\ lockState = InitialLocks
    /\ sliderDisabled = updateSliderDisabledState(InitialLocks)
    /\ sliderShown = InitialState
    /\ sample = [scores |-> <<>>, labels |-> <<>>]
    /\ lastCall = NoCall
    /\ opCount = 0
    /\ \E numSamples \in CompositeLengths, checked \in 1..3 :
          call = updateVisualizations(
                     [numSamples |-> numSamples, addNoise |-> FALSE, noiseLevel |-> 1,
                      waves |-> [i \in WaveSet |->
                                    [enabled |-> i <= checked, frequency |-> 32,
                                     amplitude |-> 1, phase |-> 0]]],
                     [n \in 1..numSamples |-> 0])

\* A listener of the page: the control takes its new value, then
\* updateVisualizations() runs.
SignalHandler(name, i, form) ==
    /\ page = "signal"
    /\ opCount < MaxOps
    /\ form # call.form
    /\ \E noise \in NoiseDraws(form.numSamples) :
          call' = updateVisualizations(form, IF form.addNoise THEN noise
                                             ELSE [n \in 1..form.numSamples |-> 0])
    /\ lastCall' = [NoCall EXCEPT !.op = name, !.value = i]
    /\ opCount' = opCount + 1
    /\ UNCHANGED <<page, regression, currentState, lockState, sliderDisabled,
                   sliderShown, sample>>

\* enableWave{i} 'change'
ToggleWave(i) ==
    SignalHandler("enableWave", i,
        [call.form EXCEPT !.waves[i].enabled = ~call.form.waves[i].enabled])
\* freq{i} 'input'
FreqInput(i, value) ==
    SignalHandler("freq", i, [call.form EXCEPT !.waves[i].frequency = value])
\* amp{i} 'input'
AmpInput(i, value) ==
    SignalHandler("amp", i, [call.form EXCEPT !.waves[i].amplitude = value])
\* phase{i} 'input'
PhaseInput(i, value) ==
    SignalHandler("phase", i, [call.form EXCEPT !.waves[i].phase = value])
\* numSamples 'input'
NumSamplesInput(value) ==
    SignalHandler("numSamples", 0, [call.form EXCEPT !.numSamples = value])
\* addNoise 'change'
ToggleNoise ==
    SignalHandler("addNoise", 0, [call.form EXCEPT !.addNoise = ~call.form.addNoise])
\* noiseLevel 'input'; the slider is disabled while addNoise is unchecked.
NoiseLevelInput(value) ==
    /\ page = "signal" /\ call.form.addNoise
    /\ SignalHandler("noiseLevel", 0, [call.form EXCEPT !.noiseLevel = value])

NextSignal ==
    \/ \E i \in WaveSet : ToggleWave(i)
    \/ \E i \in WaveSet, value \in WaveFrequencies : FreqInput(i, value)
    \/ \E i \in WaveSet, value \in WaveAmplitudes : AmpInput(i, value)
    \/ \E i \in WaveSet, value \in WavePhases : PhaseInput(i, value)
    \/ \E value \in CompositeLengths : NumSamplesInput(value)
    \/ ToggleNoise
    \/ \E value \in NoiseLevels : NoiseLevelInput(value)

SpecSignal == InitSignal /\ [][NextSignal]_vars

---------------------------------------------------------------------------
\* direct_classifier.js: GaussianNB.fit(X, y), called on its own ("bayes") on
\* every data set of at most MaxLen points.

\* [...new Set(y)]: the labels of y, each once, in the order they first occur.
distinctLabels(y) ==
    SelectSeq([i \in 1..Len(y) |->
                  IF \A j \in 1..(i - 1) : y[j] # y[i] THEN <<y[i]>> ELSE <<>>],
              LAMBDA l : l # <<>>)

\* X.filter((_, i) => y[i] === cls)
pointsOf(X, y, cls) ==
    LET kept == SelectSeq([i \in 1..Len(X) |-> IF y[i] = cls THEN <<X[i]>> ELSE <<>>],
                          LAMBDA p : p # <<>>)
    IN  [i \in 1..Len(kept) |-> kept[i][1]]

\* Math.max(1e-9, v); n / d < 1e-9 is decided without the product n * 1e9.
floorVariance(v) ==
    IF IsNaN(v) THEN NaN
    ELSE IF v[2] = 0 THEN (IF v[1] > 0 THEN v ELSE <<1, 1000000000>>)
    ELSE IF v[1] <= (v[2] - 1) \div 1000000000 THEN <<1, 1000000000>>
    ELSE v

\* this.params[cls] for the points X_cls of the class, of X_length points.
classParams(X_cls, X_length) ==
    LET mean_x == RDiv(RSum([i \in 1..Len(X_cls) |-> X_cls[i].x]), Num(Len(X_cls)))
        mean_y == RDiv(RSum([i \in 1..Len(X_cls) |-> X_cls[i].y]), Num(Len(X_cls)))
    IN  [prior |-> IDiv(Len(X_cls), X_length),
         mean |-> <<mean_x, mean_y>>,
         variance |->
            <<floorVariance(RDiv(RSum([i \in 1..Len(X_cls) |->
                                          RPow(RSub(X_cls[i].x, mean_x), 2)]),
                                 Num(Len(X_cls)))),
              floorVariance(RDiv(RSum([i \in 1..Len(X_cls) |->
                                          RPow(RSub(X_cls[i].y, mean_y), 2)]),
                                 Num(Len(X_cls))))>>]

\* The classes fit loops over, were they the two labels whatever y holds.
fittedClasses_bothLabels(y) == <<0, 1>>

\* const classes = [...new Set(y)]
fittedClasses(y) ==
    [i \in 1..Len(distinctLabels(y)) |-> distinctLabels(y)[i][1]]

\* fit(X, y): this.classes and this.params, a map from the classes to their
\* parameters.
GaussianNB_fit(X, y) ==
    [classes |-> fittedClasses(y),
     params |-> [cls \in {fittedClasses(y)[i] : i \in 1..Len(fittedClasses(y))} |->
                    classParams(pointsOf(X, y, cls), Len(X))]]

FeatureValues == {Num(0), Num(1), Num(3)}
Points == [x : FeatureValues, y : {Num(0), Num(1)}]
NoBayesCall == [fn |-> "none", X |-> <<>>, y |-> <<>>, result |-> <<>>]

InitBayes ==
    /\ page = "bayes"
    /\ regression = regressionGlobals
    /\ currentState = InitialState
    /\ lockState = InitialLocks
    /\ sliderDisabled = updateSliderDisabledState(InitialLocks)
    /\ sliderShown = InitialState
    /\ sample = [scores |-> <<>>, labels |-> <<>>]
    /\ lastCall = NoCall
    /\ opCount = 0
    /\ \E n \in 0..MaxLen :
          \E X \in SeqsOf(Points, n), y \in SeqsOf({0, 1}, n) :
             call = [NoBayesCall EXCEPT !.X = X, !.y = y]

\* model.fit(data, labels)
CallNBFit ==
    /\ page = "bayes"
    /\ call.fn = "none"
    /\ call' = [call EXCEPT !.fn = "fit", !.result = GaussianNB_fit(call.X, call.y)]
    /\ UNCHANGED <<page, regression, currentState, lockState, sliderDisabled,
                   sliderShown, sample, lastCall, opCount>>

NextBayes == CallNBFit

SpecBayes == InitBayes /\ [][NextBayes]_vars

---------------------------------------------------------------------------
\* common.js: a function made by debounce(func, wait) ("debounce").  call holds
\* the closure variable timeout, the timers setTimeout has armed and not yet
\* run or cleared, the clock, and a log of the invocations of func.  A timer
\* runs at its due time or later, as the event loop gets to it.

Arguments == {"a", "b"}
Waits == 1..MaxWait

\* debounce(func, wait): timeout is declared and nothing is armed.  The ids
\* setTimeout returns are positive; timeout = 0 stands for undefined, which
\* clearTimeout ignores.
debounce(wait) ==
    [wait |-> wait, now |-> 0, timeout |-> 0, timers |-> {}, nextTimer |-> 1,
     lastCallAt |-> -1, lastArgs |-> "", invokedSince |-> 0, cleared |-> 0,
     invoked |-> <<>>]

\* clearTimeout(id): the timer of that id, if still armed, is dropped.
clearTimeout(timers, id) == {t \in timers : t.id # id}

\* executedFunction that arms the new timer without clearing the old one.
executedFunction_noClear(d, args) ==
    [d EXCEPT !.timers = @ \cup {[id |-> d.nextTimer, due |-> d.now + d.wait,
                                  args |-> args]},
              !.timeout = d.nextTimer,
              !.nextTimer = @ + 1,
              !.lastCallAt = d.now, !.lastArgs = args, !.invokedSince = 0]

\* executedFunction(...args): clearTimeout(timeout); timeout = setTimeout(later, wait)
executedFunction(d, args) ==
    [d EXCEPT !.timers = clearTimeout(@, d.timeout)
                            \cup {[id |-> d.nextTimer, due |-> d.now + d.wait,
                                   args |-> args]},
              !.timeout = d.nextTimer,
              !.nextTimer = @ + 1,
              !.cleared = @ + Cardinality(d.timers \ clearTimeout(d.timers, d.timeout)),
              !.lastCallAt = d.now, !.lastArgs = args, !.invokedSince = 0]

\* later(), run for the timer t: clearTimeout(timeout); func(...args)
later(d, t) ==
    [d EXCEPT !.timers = clearTimeout(@ \ {t}, d.timeout),
              !.invokedSince = @ + 1,
              !.invoked = Append(@, [at |-> d.now, args |-> t.args,
                                     callAt |-> d.lastCallAt,
                                     callArgs |-> d.lastArgs])]

InitDebounce ==
    /\ page = "debounce"
    /\ regression = regressionGlobals
    /\ currentState = InitialState
    /\ lockState = InitialLocks
    /\ sliderDisabled = updateSliderDisabledState(InitialLocks)
    /\ sliderShown = InitialState
    /\ sample = [scores |-> <<>>, labels |-> <<>>]
    /\ lastCall = NoCall
    /\ opCount = 0
    /\ \E wait \in Waits : call = debounce(wait)

DebounceStep ==
    /\ page = "debounce"
    /\ UNCHANGED <<page, regression, currentState, lockState, sliderDisabled,
                   sliderShown, sample, lastCall>>

\* A call of the debounced function.
ExecutedFunction(args) ==
    /\ DebounceStep
    /\ opCount < MaxOps
    /\ call.now + call.wait <= MaxTime
    /\ call' = executedFunction(call, args)
    /\ opCount' = opCount + 1

\* The event loop runs a timer that is due.
Later ==
    /\ DebounceStep
    /\ \E t \in call.timers :
          /\ t.due <= call.now
          /\ call' = later(call, t)
    /\ UNCHANGED opCount

\* A millisecond passes.
Tick ==
    /\ DebounceStep
    /\ call.now < MaxTime
    /\ call' = [call EXCEPT !.now = @ + 1]
    /\ UNCHANGED opCount

NextDebounce ==
    \/ \E args \in Arguments : ExecutedFunction(args)
    \/ Later
    \/ Tick

SpecDebounce == InitDebounce /\ [][NextDebounce]_vars
\* Time passes and the event loop gets to every timer that stays due.
FairDebounce == WF_vars(Tick) /\ WF_vars(Later)
SpecDebounceFair == SpecDebounce /\ FairDebounce

---------------------------------------------------------------------------
\* All pages.

Init ==
    InitInverse \/ InitMetrics \/ InitGaussian \/ InitFit \/ InitRegression
        \/ InitFourier \/ InitSignal \/ InitBayes \/ InitPointer
        \/ InitDebounce \/ InitLocks
Next ==
    NextInverse \/ NextMetrics \/ NextGaussian \/ NextFit \/ NextRegression
        \/ NextFourier \/ NextSignal \/ NextBayes \/ NextPointer
        \/ NextDebounce
Spec == Init /\ [][Next]_vars

---------------------------------------------------------------------------
\* Properties of adjustValues (checked under SpecInverse).

\* The last handler was adjustValues(lastCall.param, lastCall.value), entered
\* in state lastCall.before with the locks lastCall.locks.
Adjusted == page = "inverse" /\ lastCall.op = "adjustValues"
\* The edit was committed: the edited field holds the new value.
Committed == currentState[lastCall.param] = lastCall.value
\* The unlocked fields other than the edited one.
AbsorbingParams == {q \in ParamSet \ {lastCall.param} : ~lastCall.locks[q]}
\* d: the sum after setting the edited field, minus the total.
EditDelta ==
    SumValues([lastCall.before EXCEPT ![lastCall.param] = lastCall.value])
        - TOTAL_SAMPLES
AbsorbOf(q) == IF q \in AbsorbingParams THEN lastCall.before[q] ELSE 0
HeadroomOf(q) ==
    IF q \in AbsorbingParams THEN TOTAL_SAMPLES - lastCall.before[q] ELSE 0
CanAbsorb ==
    \/ EditDelta = 0
    \/ /\ EditDelta > 0
       /\ AbsorbOf("tp") + AbsorbOf("fp") + AbsorbOf("tn") + AbsorbOf("fn")
             >= EditDelta
    \/ /\ EditDelta < 0
       /\ HeadroomOf("tp") + HeadroomOf("fp") + HeadroomOf("tn") + HeadroomOf("fn")
             >= -EditDelta

\* C1: on the inverse page the four counts of currentState always sum to
\* TOTAL_SAMPLES, after any sequence of edits and lock toggles.
C1_SumIsTotal ==
    page = "inverse" => SumValues(currentState) = TOTAL_SAMPLES

\* A second committed edit in a row has changed the edited field.
C1_Witness ==
    /\ Adjusted /\ opCount >= 2
    /\ Committed /\ lastCall.before[lastCall.param] # lastCall.value

\* C2: adjustValues is all-or-nothing: when it returns, currentState is the
\* state before the call, or a state with the edited field at the new value
\* and the counts summing to the total; updateUI is given that same state.
C2_AllOrNothing ==
    Adjusted =>
        /\ \/ currentState = lastCall.before
           \/ /\ currentState[lastCall.param] = lastCall.value
              /\ SumValues(currentState) = TOTAL_SAMPLES
        /\ sliderShown = currentState

\* A rejected edit: the new value differs from the old one and the state is
\* the one before the call.
C2_Witness ==
    /\ Adjusted
    /\ lastCall.before[lastCall.param] # lastCall.value
    /\ currentState = lastCall.before

\* C3: the edit is committed exactly when the unlocked other fields can absorb
\* the whole delta d: d = 0, or d > 0 and their values sum to at least d, or
\* d < 0 and their headroom sums to at least -d.
C3_RejectIffCannotAbsorb ==
    Adjusted => (Committed <=> CanAbsorb)

\* An edit rejected although an unlocked field could have absorbed a part.
C3_Witness ==
    /\ Adjusted /\ ~Committed
    /\ EditDelta > 0
    /\ \E q \in AbsorbingParams : lastCall.before[q] > 0

\* C4: every count of every reachable state is in 0..TOTAL_SAMPLES.
C4_CountsInRange ==
    page = "inverse" =>
        \A p \in ParamSet : currentState[p] \in 0..TOTAL_SAMPLES

\* Redistribution has driven a field down to the boundary 0.
C4_Witness ==
    /\ Adjusted
    /\ \E q \in ParamSet \ {lastCall.param} :
          currentState[q] = 0 /\ lastCall.before[q] > 0

\* C5: a locked field other than the edited one keeps its value across
\* adjustValues, committed or rejected.
C5_LockedUnchanged ==
    Adjusted =>
        \A q \in ParamSet \ {lastCall.param} :
            lastCall.locks[q] => currentState[q] = lastCall.before[q]

\* A committed edit that other fields absorbed while a non-zero field was locked.
C5_Witness ==
    /\ Adjusted /\ Committed /\ EditDelta > 0
    /\ \E q \in ParamSet \ {lastCall.param} :
          lastCall.locks[q] /\ lastCall.before[q] > 0

---------------------------------------------------------------------------
\* Properties of calculateRocAndAuc and getConfusionMatrix.

\* The last call was calculateRocAndAuc(call.labels, call.scores).
RocCalled == page = "metrics" /\ call.fn = "calculateRocAndAuc"
ConfusionCalled == page = "metrics" /\ call.fn = "getConfusionMatrix"
CountOf(labels, v) == Cardinality({i \in 1..Len(labels) : labels[i] = v})
Binary(labels) == \A i \in 1..Len(labels) : labels[i] \in {0, 1}
BothClasses(labels) == CountOf(labels, 1) > 0 /\ CountOf(labels, 0) > 0
Origin == Point(Num(0), Num(0))
Corner == Point(Num(1), Num(1))

\* The curve starts at (0,0), ends at (1,1), has one point per sample after
\* the first and never decreases in x or in y.
MonotoneCurve(rocPoints, n) ==
    /\ Len(rocPoints) = n + 1
    /\ rocPoints[1] = Origin
    /\ rocPoints[Len(rocPoints)] = Corner
    /\ \A i \in 1..(Len(rocPoints) - 1) :
          /\ RLeq(rocPoints[i].x, rocPoints[i + 1].x)
          /\ RLeq(rocPoints[i].y, rocPoints[i + 1].y)

\* C6: for labels in {0,1} with both classes present, the ROC points start at
\* (0,0), end at (1,1), are non-decreasing in fpr and tpr, and there is one
\* point per sample after the first; so also for the curve of the direct page.
C6_RocMonotone ==
    /\ (RocCalled /\ Binary(call.labels) /\ BothClasses(call.labels))
          => MonotoneCurve(call.result.rocPoints, Len(call.labels))
    /\ page = "direct"
          => MonotoneCurve(directRoc.rocPoints, 2 * N_SAMPLES_PER_CLASS)

\* A call on MaxLen samples of both classes with a tie across the classes.
C6_Witness ==
    /\ RocCalled /\ Binary(call.labels) /\ BothClasses(call.labels)
    /\ Len(call.labels) = MaxLen
    /\ \E i, j \in 1..Len(call.labels) :
          /\ call.labels[i] = 1 /\ call.labels[j] = 0
          /\ call.scores[i] = call.scores[j]

\* C7: the auc returned is in 0..1 for every input (any labels, any scores,
\* any input order).
C7_AucInUnitInterval ==
    /\ RocCalled
          => RLeq(Num(0), call.result.auc) /\ RLeq(call.result.auc, Num(1))
    /\ page = "direct"
          => RLeq(Num(0), directRoc.auc) /\ RLeq(directRoc.auc, Num(1))

\* A call with a label that is neither 0 nor 1 whose sweep reaches the bound 1.
C7_Witness ==
    /\ RocCalled
    /\ CountOf(call.labels, 2) > 0 /\ CountOf(call.labels, 1) > 0
    /\ call.result.auc = Num(1)

NoNaN(values) == \A i \in 1..Len(values) : ~IsNaN(values[i])
DiagonalResult == [rocPoints |-> ChanceLine, auc |-> IDiv(1, 2)]

\* C8: for labels in {0,1} with no positive or no negative member (the empty
\* input included) calculateRocAndAuc returns the points (0,0),(1,1) and
\* auc 1/2; on the inverse page every state with tp+fn = 0 or tn+fp = 0 shows
\* that diagonal and auc 1/2, and no metric shown is NaN.
C8_DegenerateIsDiagonal ==
    /\ (RocCalled /\ Binary(call.labels) /\ ~BothClasses(call.labels))
          => call.result = DiagonalResult
    /\ (/\ page = "inverse"
        /\ \/ sliderShown.tp + sliderShown.fn = 0
           \/ sliderShown.tn + sliderShown.fp = 0)
          => inverseRoc = DiagonalResult /\ NoNaN(inverseMetrics)

\* An edit has left the inverse page without a negative sample.
C8_Witness ==
    /\ Adjusted /\ Committed
    /\ currentState.tn + currentState.fp = 0
    /\ lastCall.before.tn + lastCall.before.fp > 0

\* Pairs (positive, negative) whose positive has the strictly higher score.
StrictlyAbove(labels, scores) ==
    Cardinality({pr \in (1..Len(labels)) \X (1..Len(labels)) :
                    /\ labels[pr[1]] = 1 /\ labels[pr[2]] = 0
                    /\ RLt(scores[pr[2]], scores[pr[1]])})

\* C9: for labels in {0,1} with both classes present the auc returned equals
\* (pairs whose positive has the strictly higher score) / (total_pos * total_neg).
C9_AucIsRankProbability ==
    (RocCalled /\ Binary(call.labels) /\ BothClasses(call.labels))
        => call.result.auc =
              IDiv(StrictlyAbove(call.labels, call.scores),
                   CountOf(call.labels, 1) * CountOf(call.labels, 0))

CountsSum(m) == m.tp + m.fp + m.tn + m.fn

\* C10: for labels in {0,1} getConfusionMatrix returns counts that sum to the
\* number of samples, with tp + fp the number of scores >= threshold and
\* tp + fn the number of positives; on the direct page the counts sum to 200
\* with tp + fn = 100 and tn + fp = 100.
C10_ConfusionIdentity ==
    /\ (ConfusionCalled /\ Binary(call.labels))
          => /\ CountsSum(call.result) = Len(call.labels)
             /\ call.result.tp + call.result.fp =
                   Cardinality({i \in 1..Len(call.scores) :
                                   RLeq(call.threshold, call.scores[i])})
             /\ call.result.tp + call.result.fn = CountOf(call.labels, 1)
    /\ page = "direct"
          => /\ CountsSum(directMatrix) = 2 * N_SAMPLES_PER_CLASS
             /\ directMatrix.tp + directMatrix.fn = N_SAMPLES_PER_CLASS
             /\ directMatrix.tn + directMatrix.fp = N_SAMPLES_PER_CLASS

\* The direct page after a slider input, with all four outcomes present.
C10_Witness ==
    /\ page = "direct" /\ lastCall.op = "updateApplication"
    /\ directMatrix.tp > 0 /\ directMatrix.fp > 0
    /\ directMatrix.tn > 0 /\ directMatrix.fn > 0

---------------------------------------------------------------------------
\* Properties of the derived rates.

MetricsCalled == page = "rates" /\ call.fn = "Metrics"
\* The entries of the metrics chart: AUC, Accuracy, Precision, Recall,
\* Specificity, F1-Score.
F1Of(metrics) == metrics[6]
\* 2 tp / (2 tp + fp + fn)
F1FromCounts(m) == IDiv(2 * m.tp, 2 * m.tp + m.fp + m.fn)
PredictedAndActual(m) == m.tp + m.fp > 0 /\ m.tp + m.fn > 0

\* C11: for all counts with tp + fp > 0 and tp + fn > 0 the f1 computed from
\* precision and recall (0 when their sum is 0) equals 2 tp / (2 tp + fp + fn);
\* so also for the rates shown on the inverse page and on the direct page.
C11_F1FromCounts ==
    /\ (MetricsCalled /\ PredictedAndActual(currentState))
          => F1Of(call.result) = F1FromCounts(currentState)
    /\ (page = "inverse" /\ PredictedAndActual(sliderShown))
          => F1Of(inverseMetrics) = F1FromCounts(sliderShown)
    /\ (page = "direct" /\ PredictedAndActual(directMatrix))
          => F1Of(directMetrics) = F1FromCounts(directMatrix)

\* Counts with tp > 0 and unequal precision and recall.
C11_Witness ==
    /\ MetricsCalled /\ PredictedAndActual(currentState)
    /\ currentState.tp > 0 /\ currentState.fp # currentState.fn
    /\ F1Of(call.result) = F1FromCounts(currentState)

---------------------------------------------------------------------------
\* Properties of the redistribution loop of adjustValues.

\* The loop states of the last adjustValues call.
LastTrace ==
    adjustTrace(lastCall.before, lastCall.locks, lastCall.param, lastCall.value)
SteppedParams(a, b) == {q \in ParamSet : a.values[q] # b.values[q]}
LargestOf(values, S) == CHOOSE m \in {values[q] : q \in S} :
                            \A q \in S : values[q] <= m
SmallestOf(values, S) == CHOOSE m \in {values[q] : q \in S} :
                            \A q \in S : values[q] >= m

\* The pass from loop state a to loop state b is one unit step as described:
\* one unlocked field other than the edited one moves by 1, and it is a
\* largest field (> 0) when the sum is above the total, a smallest field
\* (< total) when the sum is below it.
UnitStep(a, b) ==
    \E q \in AbsorbingParams :
        /\ SteppedParams(a, b) = {q}
        /\ IF a.diff > 0
           THEN /\ b.values[q] = a.values[q] - 1
                /\ b.diff = a.diff - 1
                /\ a.values[q] > 0
                /\ a.values[q] = LargestOf(a.values, AbsorbingParams)
           ELSE /\ a.diff < 0
                /\ b.values[q] = a.values[q] + 1
                /\ b.diff = a.diff + 1
                /\ a.values[q] < TOTAL_SAMPLES
                /\ a.values[q] = SmallestOf(a.values, AbsorbingParams)

\* C20: every pass of the loop of adjustValues either ends the loop without
\* touching a value or is one unit step on an unlocked field other than the
\* edited one (largest field down when the sum exceeds the total, smallest
\* field up when it is below); the edited field keeps the new value, and the
\* state adjustValues leaves is the one these steps produce.
C20_UnitSteps ==
    Adjusted =>
        LET trace == LastTrace
            last == trace[Len(trace)]
        IN  /\ \A k \in 1..(Len(trace) - 1) :
                  /\ \/ trace[k + 1].stopped /\ SteppedParams(trace[k], trace[k + 1]) = {}
                     \/ UnitStep(trace[k], trace[k + 1])
                  /\ trace[k + 1].values[lastCall.param] = lastCall.value
            /\ currentState = IF last.diff = 0 THEN last.values ELSE lastCall.before

\* A committed edit whose steps went down on two different fields.
C20_Witness ==
    /\ Adjusted /\ Committed /\ EditDelta > 1
    /\ \E j, k \in 1..(Len(LastTrace) - 1) :
          /\ SteppedParams(LastTrace[j], LastTrace[j + 1]) # {}
          /\ SteppedParams(LastTrace[k], LastTrace[k + 1]) # {}
          /\ SteppedParams(LastTrace[j], LastTrace[j + 1])
                # SteppedParams(LastTrace[k], LastTrace[k + 1])

---------------------------------------------------------------------------
\* Properties of randomGaussian.

GaussianCall == page = "gaussian"
GaussianReturned == GaussianCall /\ call.pc = "done"

\* C17: in a call of randomGaussian, Math.log is never given 0 (the call
\* leaves each loop only with a non-zero variate), a non-zero draw ends the
\* loop it is made in, and the call returns when the uniform source does not
\* return 0 forever.
C17_GaussianTerminates ==
    /\ [](GaussianCall =>
            /\ call.pc \in {"whileV", "return", "done"} => call.u # 0
            /\ call.pc \in {"return", "done"} => call.v # 0
            /\ call.pc = "done" => call.logArg # 0)
    /\ [][GaussianCall =>
            /\ (call.pc = "whileU" /\ call'.u # 0) => call'.pc = "whileV"
            /\ (call.pc = "whileV" /\ call'.v # 0) => call'.pc = "return"]_vars
    /\ (GaussianCall => <>GaussianReturned)

\* A call that has returned after the source yielded 0 at least twice.
C17_Witness ==
    GaussianReturned /\ call.draws = MaxDraws /\ call.result # <<>>

---------------------------------------------------------------------------
\* Properties of the regression functions.

FitCalled == page = "fit" /\ call.fn = "fitPolynomialRegression"
StatisticsCalled == page = "fit" /\ call.fn = "calculateStatistics"

\* C12: for parallel arrays X, y and a degree >= 0, fitPolynomialRegression
\* returns null exactly when X.length < degree + 1, and otherwise an array of
\* degree + 1 coefficients (which are NaN or infinite when the normal
\* equations are singular).
C12_FitNullOrCoefficients ==
    FitCalled =>
        /\ call.result = null <=> Len(call.X) < call.degree + 1
        /\ call.result # null =>
              /\ Len(call.result) = call.degree + 1
              /\ \A i \in 1..Len(call.result) :
                    /\ Len(call.result[i]) = 2
                    /\ call.result[i][2] >= 0

\* A fit on exactly degree + 1 points with distinct x that returned finite
\* coefficients, the leading one not 0.
C12_Witness ==
    /\ FitCalled /\ call.degree = MaxDegree /\ Len(call.X) = call.degree + 1
    /\ call.result # null
    /\ \A i \in 1..Len(call.result) : IsFinite(call.result[i])
    /\ call.result[call.degree + 1] # Num(0)

\* A degree-1 fit on two points with distinct x, followed by predict and
\* calculateStatistics.
LineThroughTwo ==
    /\ StatisticsCalled /\ call.degree = 1
    /\ Len(call.X) = 2 /\ call.X[1] # call.X[2]
ResidualsZero ==
    \A i \in 1..Len(call.result.stats.residuals) :
        call.result.stats.residuals[i] = Num(0)
\* The line through the two points: slope (y2 - y1) / (x2 - x1).
ExactLine ==
    LET slope == RDiv(RSub(call.y[2], call.y[1]), RSub(call.X[2], call.X[1]))
    IN  call.result.coefficients =
           <<RSub(call.y[1], RMul(slope, call.X[1])), slope>>

---------------------------------------------------------------------------
\* C13: on the regression page, whenever there are fewer than degree + 1
\* points, the regression line, both confidence bands, the residual lines and
\* the residual plot are empty and the statistics shown are those of the zero
\* record (0.0000 in every field, or "-" when there is no point at all), so
\* nothing of an earlier fit is left on the page.
TooFewPoints ==
    /\ page = "regression"
    /\ Len(regression.points) < regression.degreeSlider + 1

ZeroDisplay(n) ==
    LET zero == IF n > 0 THEN <<0>> ELSE <<"-">>
    IN  [r2Value |-> zero, adjustedR2Value |-> zero, mseValue |-> zero,
         maeValue |-> zero, rmseValue |-> zero, nPointsValue |-> n]

C13_TooFewPointsShowNothing ==
    TooFewPoints =>
        /\ \A i \in 2..5 : regression.mainChart[i] = <<>>
        /\ regression.residualChart = <<>>
        /\ regression.statistics = ZeroDisplay(Len(regression.points))

\* A point was put on the cleared page: one point, no curve for it.
C13_Witness ==
    /\ TooFewPoints
    /\ Len(regression.points) = 1
    /\ lastCall.op = "mouseup"
    /\ opCount = 2

---------------------------------------------------------------------------
\* Properties of the Fourier functions (checked under SpecFourier).

FftCalled == page = "fourier" /\ call.fn = "fft"
SpectrumCalled == page = "fourier" /\ call.fn = "computeMagnitudeSpectrum"
PowerOfTwo(N) == \E e \in 0..N : 2 ^ e = N

BinMagnitude(dftResult, k) ==
    MathSqrt(QAdd(QMul(dftResult.re[k + 1], dftResult.re[k + 1]),
                  QMul(dftResult.im[k + 1], dftResult.im[k + 1])))

\* C15: for a transform of length N >= 1, computeMagnitudeSpectrum returns
\* floor(N/2) + 1 values: |X[0]|/N first, |X[N/2]|/N last when N is even
\* (also when N = 2), and 2*|X[k]|/N for every other k (N = 1 gives the one
\* value |X[0]|).
C15_SingleSidedMagnitudes ==
    SpectrumCalled =>
        LET X == call.result.dftResult
            N == Len(X.re)
            magnitudes == call.result.magnitudes
        IN  /\ Len(magnitudes) = N \div 2 + 1
            /\ \A k \in 0..(N \div 2) :
                  magnitudes[k + 1] =
                      Scaled(IF k = 0 \/ (N % 2 = 0 /\ 2 * k = N)
                             THEN IDiv(1, N) ELSE IDiv(2, N),
                             BinMagnitude(X, k))

\* A spectrum of an even length with something in its first, in its last
\* and in a middle bin.
C15_Witness ==
    /\ SpectrumCalled
    /\ Len(call.signal) = 4
    /\ \A k \in 1..3 : call.result.magnitudes[k].coef # Num(0)

\* C16: for a real signal of N >= 1 samples without noise, totalPower (the
\* squared magnitudes, halved except for the first and, when N is even, the
\* last) is the mean of the squared samples, which is rmsAmplitude squared.
C16_Parseval ==
    SpectrumCalled =>
        /\ call.result.info.totalPower =
               QDivInt(sumOfSquares(QZero, 0, call.signal), Len(call.signal))
        /\ call.result.info.totalPower = Squared(call.result.info.rmsAmplitude)

\* An odd number of samples with power in a bin that is halved.
C16_Witness ==
    /\ SpectrumCalled
    /\ Len(call.signal) = 3
    /\ call.result.magnitudes[2].coef # Num(0)
    /\ call.result.info.totalPower # QZero

\* The signal is a sine of phase 0 on bin k, 0 < k < N/2.
SineOnBin(k) ==
    /\ call.wave # <<>>
    /\ call.wave[1].phaseDeg = 0
    /\ call.wave[1].frequency * call.wave[1].numSamples
           = k * call.wave[1].samplingRate
    /\ 0 < k /\ 2 * k < call.wave[1].numSamples

\* C19: the magnitude spectrum of a sine of phase 0 and amplitude A on bin k,
\* 0 < k < N/2, is A at bin k and 0 at every other bin (exactly, rounding
\* being left out).
C19_SinePeak ==
    SpectrumCalled =>
        \A k \in 1..Len(call.signal) :
            SineOnBin(k) =>
                \A i \in 0..(Len(call.result.magnitudes) - 1) :
                    LET mag == call.result.magnitudes[i + 1]
                    IN  /\ RLeq(Num(0), mag.coef)
                        /\ Squared(mag) =
                               IF i = k
                               THEN QInt(call.wave[1].amplitude
                                             * call.wave[1].amplitude)
                               ELSE QZero

\* Amplitude 10 on bin 3 of eight samples at the rate of the page.
C19_Witness ==
    /\ SpectrumCalled
    /\ SineOnBin(3)
    /\ call.wave[1].amplitude = 10
    /\ call.wave[1].samplingRate = SAMPLING_RATE
    /\ call.wave[1].numSamples = 8

---------------------------------------------------------------------------
\* The derived rates are well defined.

\* rate is the ratio n / d, and 0 when the denominator d is 0.
IsRatio(rate, n, d) ==
    IF d = 0 THEN rate = Num(0)
    ELSE rate[2] > 0 /\ rate[1] * d = n * rate[2]
InUnitInterval(rate) == rate[2] > 0 /\ 0 <= rate[1] /\ rate[1] <= rate[2]
\* f1 is 2 precision recall / (precision + recall), and 0 when precision +
\* recall is 0.
IsHarmonic(f1, precision, recall) ==
    IF RAdd(precision, recall) = Num(0) THEN f1 = Num(0)
    ELSE RMul(f1, RAdd(precision, recall)) = RMul(Num(2), RMul(precision, recall))
\* metrics = [auc, accuracy, precision, recall, specificity, f1score]
RatesWellDefined(m, metrics) ==
    /\ IsRatio(metrics[2], m.tp + m.tn, m.tp + m.fp + m.tn + m.fn)
    /\ IsRatio(metrics[3], m.tp, m.tp + m.fp)
    /\ IsRatio(metrics[4], m.tp, m.tp + m.fn)
    /\ IsRatio(metrics[5], m.tn, m.tn + m.fp)
    /\ IsHarmonic(metrics[6], metrics[3], metrics[4])
    /\ \A i \in 2..6 : InUnitInterval(metrics[i])
    /\ \A i \in 1..6 : IsFinite(metrics[i])

\* C21: for all non-negative counts each of accuracy, precision, recall,
\* specificity and f1 is 0 when its denominator is 0 and the stated ratio
\* otherwise, each lies in [0,1], and no entry of the metrics chart (the auc
\* included) is NaN or infinite; on the rates computed alone, on the inverse
\* page and on the direct page.
C21_RatesWellDefined ==
    /\ MetricsCalled => RatesWellDefined(currentState, call.result)
    /\ page = "inverse" => RatesWellDefined(sliderShown, inverseMetrics)
    /\ page = "direct" => RatesWellDefined(directMatrix, directMetrics)

\* Counts with no actual positive and no predicted positive: the denominators
\* of precision, recall and f1 are all 0.
C21_Witness ==
    /\ MetricsCalled
    /\ currentState.tp = 0 /\ currentState.fp = 0 /\ currentState.fn = 0
    /\ currentState.tn > 0

---------------------------------------------------------------------------
\* Properties of generateScoresFromMatrix.

ScoresGenerated == page = "rates" /\ call.fn = "generateScoresFromMatrix"
\* scores and labels are parallel, with tn + fp labels 0 and tp + fn labels 1.
MatchesCounts(m, result) ==
    /\ Len(result.scores) = Len(result.labels)
    /\ CountOf(result.labels, 0) = m.tn + m.fp
    /\ CountOf(result.labels, 1) = m.tp + m.fn
    /\ Len(result.labels) = m.tp + m.fp + m.tn + m.fn
BothClassesCounted(m) == m.tp + m.fn > 0 /\ m.tn + m.fp > 0
NothingGenerated(result) == result.scores = <<>> /\ result.labels = <<>>

\* C22 as stated: for any counts the arrays returned hold tn + fp entries
\* labelled 0 and tp + fn entries labelled 1.
C22_AnyCounts ==
    /\ ScoresGenerated => MatchesCounts(currentState, call.result)
    /\ page = "inverse" => MatchesCounts(sliderShown, sample)

\* C22: for counts with tp + fn > 0 and tn + fp > 0 generateScoresFromMatrix
\* returns parallel scores/labels arrays with exactly tn + fp entries labelled
\* 0 and tp + fn entries labelled 1, so labels.length = tp + fp + tn + fn;
\* when tp + fn = 0 or tn + fp = 0 it returns two empty arrays.
C22_ScoresMatchCounts ==
    /\ ScoresGenerated =>
          IF BothClassesCounted(currentState)
          THEN MatchesCounts(currentState, call.result)
          ELSE NothingGenerated(call.result)
    /\ page = "inverse" =>
          IF BothClassesCounted(sliderShown)
          THEN MatchesCounts(sliderShown, sample)
          ELSE NothingGenerated(sample)

\* Scores generated for classes of different non-zero sizes.
C22_Witness ==
    /\ ScoresGenerated /\ BothClassesCounted(currentState)
    /\ currentState.tp + currentState.fn # currentState.tn + currentState.fp
    /\ Len(call.result.labels) > 2

---------------------------------------------------------------------------
\* Properties of the composite signal.

NoiseOff == page = "signal" /\ ~call.form.addNoise
\* The waves that are enabled and have a positive amplitude.
Audible(form) == {i \in WaveSet : form.waves[i].enabled /\ form.waves[i].amplitude > 0}
\* amplitude * sin(2 pi frequency n / SAMPLING_RATE + phase) of wave i, n from 0.
WaveSample(form, i, n) ==
    QMul(QInt(form.waves[i].amplitude),
         MathSin(RAdd(IDiv(form.waves[i].frequency * n, SAMPLING_RATE),
                      IDiv(form.waves[i].phase, 360))))
RECURSIVE SumOfWaves(_, _, _)
SumOfWaves(form, S, n) ==
    IF S = {} THEN QZero
    ELSE LET i == CHOOSE w \in S : TRUE
         IN  QAdd(WaveSample(form, i, n), SumOfWaves(form, S \ {i}, n))
WaveSettings ==
    [enabled : {FALSE}, frequency : WaveFrequencies, amplitude : WaveAmplitudes,
     phase : WavePhases]
\* The forms that differ from form in the settings of one disabled wave.
SameButDisabled(form) ==
    {[form EXCEPT !.waves[i] = settings] :
        i \in {w \in WaveSet : ~form.waves[w].enabled}, settings \in WaveSettings}
SameOutputs(shown, spectrum, other) ==
    /\ other.signal = shown.signal
    /\ other.individualWaves = shown.individualWaves
    /\ shownSpectrum(other.signal) = spectrum
\* Every form that differs in one disabled wave gives the outputs shown.
DisabledSilent(shown, spectrum) ==
    \A other \in SameButDisabled(shown.form) :
        SameOutputs(shown, spectrum,
                    updateVisualizations(other, [n \in 1..other.numSamples |-> 0]))

\* C23: with noise disabled the composite signal has exactly numSamples
\* samples, each the sum over the enabled waves of amplitude > 0 of that wave's
\* sample, and the settings of disabled waves have no influence: every form
\* that differs in them only gives the same signal, waves and spectrum.
C23_DisabledWavesSilent ==
    NoiseOff =>
        /\ Len(call.signal) = call.form.numSamples
        /\ \A n \in 1..call.form.numSamples :
              call.signal[n] = SumOfWaves(call.form, Audible(call.form), n - 1)
        /\ DisabledSilent(call, shownSpectrum(call.signal))

\* A setting of a disabled wave has just been changed while another wave
\* sounds.
C23_Witness ==
    /\ NoiseOff
    /\ lastCall.op \in {"freq", "amp", "phase"}
    /\ ~call.form.waves[lastCall.value].enabled
    /\ Audible(call.form) # {}

---------------------------------------------------------------------------
\* Properties of GaussianNB.fit.

NBFitted == page = "bayes" /\ call.fn = "fit"
Members(cls) == {i \in 1..Len(call.y) : call.y[i] = cls}
EmptyClasses == {cls \in {0, 1} : Members(cls) = {}}
FittedFor(cls) == cls \in DOMAIN call.result.params
AllFinite(p) ==
    /\ IsFinite(p.prior)
    /\ IsFinite(p.mean[1]) /\ IsFinite(p.mean[2])
    /\ IsFinite(p.variance[1]) /\ IsFinite(p.variance[2])

\* C24 as stated: after fit on samples in which a class of {0,1} has no
\* member, the model holds NaN prior and variance values for that class.
C24_NaNForEmptyClass ==
    NBFitted =>
        \A cls \in EmptyClasses :
            /\ FittedFor(cls)
            /\ IsNaN(call.result.params[cls].prior)
            /\ IsNaN(call.result.params[cls].variance[1])
            /\ IsNaN(call.result.params[cls].variance[2])

\* C24: after fit on samples in which a class of {0,1} has no member, the
\* model holds no parameters for that class: the classes are the labels
\* present, each with at least one member, so no count divided by is zero and
\* every prior, mean and variance held is a finite number.
C24_NoEntryForEmptyClass ==
    NBFitted =>
        /\ \A cls \in EmptyClasses : ~FittedFor(cls)
        /\ \A cls \in {0, 1} \ EmptyClasses :
              FittedFor(cls) /\ AllFinite(call.result.params[cls])

\* fit has run on three samples that are all of class 0.
C24_Witness ==
    /\ NBFitted
    /\ Len(call.y) = MaxLen /\ EmptyClasses = {1}

---------------------------------------------------------------------------
\* Properties of a drag on the regression page.

PointIds(st) == {st.points[i].id : i \in 1..Len(st.points)}
\* The step is a run of the listener `name`.
ListenerRuns(name) == opCount' = opCount + 1 /\ lastCall'.op = name
\* The last listener was a contextmenu event that cancelled a drag.
DragCancelled == lastCall.op = "contextmenu" /\ lastCall.param = "dragging"
\* A mousemove during a drag changes at most the coordinates of the point
\* whose id is draggedPointId.
MoveMovesDragged ==
    (ListenerRuns("mousemove") /\ regression.isDragging) =>
        /\ Len(regression'.points) = Len(regression.points)
        /\ \A i \in 1..Len(regression.points) :
              /\ regression'.points[i].id = regression.points[i].id
              /\ regression.points[i].id # regression.draggedPointId
                    => regression'.points[i] = regression.points[i]
        /\ regression'.isDragging
        /\ regression'.draggedPointId = regression.draggedPointId
\* A contextmenu event during a drag only cancels the drag.
ContextMenuCancels ==
    (ListenerRuns("contextmenu") /\ regression.isDragging) =>
        /\ ~regression'.isDragging
        /\ regression'.draggedPointId = null
        /\ regression'.points = regression.points
\* The left mouseup that ends a drag, or follows a cancelled one, adds no point.
MouseUpAddsNone ==
    (ListenerRuns("mouseup") /\ (regression.isDragging \/ DragCancelled)) =>
        /\ ~regression'.isDragging
        /\ regression'.draggedPointId = null
        /\ regression'.points = regression.points
\* The step is not taken during a drag, or it keeps the set of point ids.
DragKeepsIds ==
    (opCount' = opCount + 1 /\ regression.isDragging) =>
        PointIds(regression') = PointIds(regression)

\* C25 as stated: every listener run while isDragging keeps the set of point
\* ids, a mousemove moves the dragged point only, a contextmenu only cancels
\* the drag, and the mouseup that ends or follows a cancelled drag adds no point.
C25_EveryListenerKeepsIds ==
    [][DragKeepsIds /\ MoveMovesDragged /\ ContextMenuCancels /\ MouseUpAddsNone]_vars

\* C25: every mousemove, contextmenu and left mouseup run while isDragging
\* keeps the set of point ids: a mousemove changes the coordinates of the
\* point whose id is draggedPointId only, a contextmenu only cancels the drag
\* (isDragging = false, draggedPointId = null) and removes no point, and the
\* left mouseup that ends the drag, or that follows a drag cancelled by
\* contextmenu, adds no point.
C25_DragListenersKeepIds ==
    [][MoveMovesDragged /\ ContextMenuCancels /\ MouseUpAddsNone]_vars

\* A left mouseup on free space inside the view, right after a contextmenu
\* event cancelled a drag.
C25_Witness ==
    /\ page = "pointer"
    /\ lastCall.op = "mouseup" /\ lastCall.param = "cancelled"
    /\ Len(regression.points) = 8

---------------------------------------------------------------------------
\* Properties of the point ids.

OnRegressionPage == page \in {"regression", "pointer"}
DistinctIds(st) ==
    \A i, j \in 1..Len(st.points) : i # j => st.points[i].id # st.points[j].id
IdsBelowNext(st) == \A i \in 1..Len(st.points) : st.points[i].id < st.nextPointId
\* nextPointId does not decrease and every id that was not in the collection
\* before the step is one that was never handed out.
IdsNeverReused ==
    /\ regression'.nextPointId >= regression.nextPointId
    /\ \A id \in PointIds(regression') \ PointIds(regression) :
          id >= regression.nextPointId
\* A contextmenu event outside a drag is removePoint(id) for the point under
\* the pointer, if any: that point goes and the others stay as they are.
RemovesExactlyOne ==
    (ListenerRuns("contextmenu") /\ ~regression.isDragging) =>
        \/ regression'.points = regression.points
        \/ \E k \in 1..Len(regression.points) :
              regression'.points =
                 [i \in 1..(Len(regression.points) - 1) |->
                     IF i < k THEN regression.points[i] ELSE regression.points[i + 1]]

\* C26: on the regression page the ids of the points are pairwise distinct and
\* each is below nextPointId; nextPointId never decreases and an id once used
\* is never assigned again, after clear-all too; removePoint(id) removes
\* exactly the point with that id and leaves every other point unchanged.
C26_IdsAreUnique ==
    /\ [](OnRegressionPage => DistinctIds(regression) /\ IdsBelowNext(regression))
    /\ [][OnRegressionPage => IdsNeverReused /\ RemovesExactlyOne]_vars

\* All points cleared, five random ones added, one of them removed.
C26_Witness ==
    /\ page = "pointer"
    /\ lastCall.op = "contextmenu"
    /\ Len(regression.points) = 4
    /\ regression.nextPointId = 13
    /\ \A i \in 1..4 : regression.points[i].id >= 8

---------------------------------------------------------------------------
\* Properties of debounce.

Debounced == page = "debounce"
Called == Debounced /\ call.lastCallAt >= 0
\* wait has elapsed since the most recent call.
QuietReached == Called /\ call.now >= call.lastCallAt + call.wait
\* func has run only after wait had elapsed since the most recent call, with
\* the arguments of that call.
InvokedWhenQuiet ==
    \A i \in 1..Len(call.invoked) :
        /\ call.invoked[i].callAt >= 0
        /\ call.invoked[i].at >= call.invoked[i].callAt + call.wait
        /\ call.invoked[i].args = call.invoked[i].callArgs
\* Since the most recent call func has run once and nothing is pending, or it
\* has not run and exactly the invocation of that call is pending.
OncePerCall ==
    /\ Cardinality(call.timers) + call.invokedSince = 1
    /\ \A t \in call.timers :
          /\ t.id = call.timeout /\ t.args = call.lastArgs
          /\ t.due = call.lastCallAt + call.wait
    /\ ~QuietReached => call.invokedSince = 0
\* The timer of id k is armed / has run or has been replaced by a newer one.
Armed(k) == Debounced /\ \E t \in call.timers : t.id = k
Settled(k) == Debounced /\ \A t \in call.timers : t.id # k
RanFor(k) == Debounced /\ call.timeout = k /\ call.invokedSince = 1

---------------------------------------------------------------------------
\* adjustValues is idempotent.

\* currentState after adjustValues(p, v).
AdjustedOnce(p, v) == adjustedState(currentState, lockState, p, v)
\* currentState after adjustValues(p, v) is called again, once being what the
\* first call left.
AdjustedTwice(once, p, v) == adjustedState(once, lockState, p, v)

\* C28: in every reachable state of the inverse page, for every field p,
\* locked or not, and every value v, adjustValues(p, v) called twice in a row
\* leaves currentState as the first call left it, and
\* adjustValues(p, currentState[p]) changes nothing.
C28_AdjustIdempotent ==
    page = "inverse" =>
        \A p \in ParamSet :
            /\ \A v \in EditValues :
                   LET once == AdjustedOnce(p, v)
                   IN  AdjustedTwice(once, p, v) = once
            /\ AdjustedOnce(p, currentState[p]) = currentState

\* The same edit has been made twice in a row: the first call changed the
\* state, the second found the field on its value and changed nothing.
C28_Witness ==
    /\ Adjusted /\ opCount = 2
    /\ lastCall.value = lastCall.before[lastCall.param]
    /\ lastCall.before # InitialState
    /\ currentState = lastCall.before

---------------------------------------------------------------------------
\* Properties of the lock toggles.

OnInversePage == page \in {"inverse", "locks"}
LockedFields == {p \in ParamSet : lockState[p]}

\* C29: after the load and after every lock toggle the slider of a field is
\* disabled if and only if the field is locked or at least three fields are
\* locked; so an enabled slider belongs to an unlocked field with another
\* unlocked field beside it, and every edit made through a slider was of a
\* field unlocked at the time.
C29_DisabledIffLocked ==
    OnInversePage =>
        /\ \A p \in ParamSet :
              /\ sliderDisabled[p] <=> (lockState[p] \/ Cardinality(LockedFields) >= 3)
              /\ ~sliderDisabled[p] =>
                    /\ ~lockState[p]
                    /\ \E q \in ParamSet \ {p} : ~lockState[q]
        /\ lastCall.op = "adjustValues" => ~lastCall.locks[lastCall.param]

\* The third lock has just been set: every slider is disabled, the one of the
\* field left unlocked too.
C29_Witness ==
    /\ page = "locks" /\ lastCall.op = "toggle"
    /\ Cardinality(LockedFields) = 3
    /\ \E p \in ParamSet : ~lockState[p] /\ sliderDisabled[p]

\* ---------------------------------------------------------------------
\* C30: the index map of the bit-reverse copy.

\* The index j the bit-reversal loop of fft computes for i when the signal
\* has N samples.
bitReversedIndex(N, i) == reverseBits(0, N \div 2, i)

\* The loop's index map is a bijection on 0..N-1 and is its own inverse.
SelfInverseBijection(N) ==
    /\ \A i \in 0..(N - 1) : bitReversedIndex(N, i) \in 0..(N - 1)
    /\ \A i, k \in 0..(N - 1) :
           bitReversedIndex(N, i) = bitReversedIndex(N, k) => i = k
    /\ \A j \in 0..(N - 1) : \E i \in 0..(N - 1) : bitReversedIndex(N, i) = j
    /\ \A i \in 0..(N - 1) : bitReversedIndex(N, bitReversedIndex(N, i)) = i

\* The number of iterations of the copy loop that write re[j].
writesTo(N, j) == Cardinality({i \in 0..(N - 1) : bitReversedIndex(N, i) = j})

\* re after the copy loop has every entry written once, from the sample the
\* index map names, and none left as new Array(N) made it.
CopiedOnce(signal) ==
    LET N  == Len(signal)
        re == bitReverseCopy([i \in 1..N |-> undefined], 0, signal)
    IN  /\ \A j \in 0..(N - 1) : writesTo(N, j) = 1
        /\ \A j \in 1..N : re[j] # undefined
        /\ \A i \in 0..(N - 1) : re[bitReversedIndex(N, i) + 1] = signal[i + 1]

\* C30: whenever fft is called on a signal whose length N is a power of two,
\* the index map i -> j of its bit-reversal loop is a bijection on 0..N-1
\* that is its own inverse, and the copy loop assigns every entry of re
\* exactly once from the signal, leaving none undefined.
C30_BitReversalIsInvolution ==
    FftCalled /\ PowerOfTwo(Len(call.signal)) =>
        /\ SelfInverseBijection(Len(call.signal))
        /\ CopiedOnce(call.signal)

\* fft has run on eight samples, where the map moves an index (1 -> 4).
C30_Witness ==
    /\ FftCalled
    /\ Len(call.signal) = 8
    /\ bitReversedIndex(8, 1) = 4
    /\ \E i \in 1..8 : call.signal[i] # call.signal[1]
====
